---- MODULE Spec2Model ----
(***************************************************************************)
(* A model of the MUD/TOTE diagram tool: the JSON importer and exporter    *)
(* of utils/nodeUtils.ts (exportUtils part) and the edge geometry of       *)
(* App-simple.tsx (calculateEdgeOffset), the colour resolvers getEdgeColor *)
(* and getNodeColors, the SVG and TikZ exporters, the toolbar, click and   *)
(* key handlers of SimpleApp, and the reducers of store/diagramSlice.ts.   *)
(*                                                                         *)
(* JavaScript values are modelled as tagged records [t, v]; numbers that   *)
(* the geometry computes are exact rationals <<numerator, denominator>>.   *)
(***************************************************************************)
EXTENDS Integers, Sequences, FiniteSets, TLC

VARIABLES
    currentDiagram,   \* the caller's diagram (diagramSlice state.currentDiagram)
    file,             \* the JSON file last written by the exporter or picked for import
    fileOrigin,       \* the diagram `file` was exported from, NoDiagram for a hand-made file
    outcome,          \* what reader.onload did with `file`: none, error, cancelled, imported
    alertMessage,     \* the text of the last alert() shown, "none" if there was none
    now,              \* the clock read by new Date() / Date.now()
    nodes,            \* SimpleApp: the nodes state
    edges,            \* SimpleApp: the edges state (the allEdges argument)
    drawn,            \* the edge last passed to calculateEdgeOffset, NoEdge before any call
    coords,           \* what that call returned
    asked,            \* the last call of a colour resolver: the function and its arguments
    answered,         \* what that call returned, or that it threw
    selectedTool,     \* SimpleApp: the tool chosen in the toolbar
    selectedNodes,    \* SimpleApp: the ids of the selected nodes
    selectedEdges,    \* SimpleApp: the ids of the selected edges
    diagramMode,      \* SimpleApp: MUD, TOTE or HYBRID
    autoDetectEdges,  \* SimpleApp: the auto-detection checkbox
    pendingEdge,      \* SimpleApp: the ends waiting for the edge type selector, or NoPending
    selectedItems     \* diagramSlice state.selectedItems

importVars == <<currentDiagram, file, fileOrigin, outcome, alertMessage, now>>
geomVars == <<nodes, edges, drawn, coords>>
styleVars == <<asked, answered>>
appVars == <<selectedTool, selectedNodes, selectedEdges, diagramMode, autoDetectEdges,
            pendingEdge>>
uiVars == <<selectedTool, selectedNodes, selectedEdges, diagramMode, autoDetectEdges,
           pendingEdge, selectedItems>>
vars == <<currentDiagram, file, fileOrigin, outcome, alertMessage, now,
          nodes, edges, drawn, coords, asked, answered,
          selectedTool, selectedNodes, selectedEdges, diagramMode, autoDetectEdges,
          pendingEdge, selectedItems>>

\* No colour resolver has been called.
NoCall == [fn |-> "none"]
StyleIdle == asked = NoCall /\ answered = NoCall

\* pendingEdge when no edge waits for its type (null).
NoPending == [source |-> "none", target |-> "none"]

\* The useState initial values of SimpleApp and the initialState of the slice.
UiIdle ==
    /\ selectedTool = "select"
    /\ selectedNodes = <<>>
    /\ selectedEdges = <<>>
    /\ diagramMode = "HYBRID"
    /\ autoDetectEdges = TRUE
    /\ pendingEdge = NoPending
    /\ selectedItems = <<>>

\* The last clock value the model lets time reach.
MaxClock == 1
\* The most edges of one direction between the two nodes of a scene.
MaxParallel == 4
\* The most edges of the opposite direction.
MaxOpposite == 2
\* The most self-loops on one node of a scene.
MaxLoops == 7

-----------------------------------------------------------------------------
(* JavaScript values *)

J(t, v) == [t |-> t, v |-> v]
Undefined == J("undefined", "")
Null == J("null", "")
Str(s) == J("string", s)
Num(s) == J("number", s)
Bool(s) == J("boolean", s)
Obj(s) == J("object", s)
EmptyArray == J("array", "[]")

\* ToBoolean, as applied by !x, x && y and x || y.
Truthy(j) ==
    CASE j.t \in {"undefined", "null"} -> FALSE
      [] j.t = "boolean" -> j.v = "true"
      [] j.t = "number" -> j.v \notin {"0", "NaN"}
      [] j.t = "string" -> j.v # ""
      [] OTHER -> TRUE

\* a || b
OrElse(a, b) == IF Truthy(a) THEN a ELSE b

\* Array.isArray
IsArray(j) == j.t = "array"

\* An array of objects: its elements are kept in items.
ArrayOf(items) == [t |-> "array", v |-> "", items |-> items]
NotAnArray(j) == [t |-> j.t, v |-> j.v, items |-> <<>>]

\* new Date().toISOString() and Date.now().toString() at clock value n.
IsoString(n) == Str("T" \o ToString(n))
NowString(n) == Str(ToString(n))

-----------------------------------------------------------------------------
(* Diagram documents: types/all.ts and the objects JSON.parse returns *)

\* A node object. In a Diagram id, type and label are strings and position is
\* a Point; in a parsed file every field is whatever the file holds.
NodeObject(id, type, position, label) ==
    [t |-> "object", id |-> id, type |-> type, position |-> position, label |-> label]

\* An edge object (App-simple Edge: source is null for an entry arrow).
EdgeObject(id, type, source, target) ==
    [t |-> "object", id |-> id, type |-> type, source |-> source, target |-> target]

\* An array element that is no object (null, a number): every property of a
\* number reads as undefined, reading a property of null throws.
NonObject(j, shape) == [f \in DOMAIN shape |-> IF f = "t" THEN j.t ELSE Undefined]

Metadata(created, modified, author, description) ==
    [t |-> "object", created |-> created, modified |-> modified, author |-> author,
     description |-> description, exported |-> Undefined, version |-> Undefined]

NoMetadata ==
    [t |-> "undefined", created |-> Undefined, modified |-> Undefined, author |-> Undefined,
     description |-> Undefined, exported |-> Undefined, version |-> Undefined]

DiagramObject(id, name, type, ns, es, entryPoints, exitPoints, metadata) ==
    [id |-> id, name |-> name, type |-> type, nodes |-> ns, edges |-> es,
     entryPoints |-> entryPoints, exitPoints |-> exitPoints, metadata |-> metadata]

NoDiagram == [t |-> "none"]
NoFile == [syntax |-> "none"]

\* The node kinds the importer recognises.
NodeKinds == {"vocabulary", "practice", "test", "operate", "exit"}

-----------------------------------------------------------------------------
(* exportAsJSON *)

\* JSON.stringify of one property value: a property holding undefined is left
\* out (and reads back as undefined), NaN and the infinities are written null.
JsonValue(j) ==
    IF j.t = "number" /\ j.v \in {"NaN", "Infinity", "-Infinity"} THEN Null ELSE j

JsonObject(o) == [f \in DOMAIN o |-> IF f = "t" THEN o.t ELSE JsonValue(o[f])]

JsonArray(a) ==
    IF a.t = "array" THEN ArrayOf([i \in 1..Len(a.items) |-> JsonObject(a.items[i])])
    ELSE NotAnArray(JsonValue([t |-> a.t, v |-> a.v]))

\* JSON.stringify(exportData, null, 2): the text of a JSON object.
JsonStringify(d) ==
    [syntax |-> "json", top |-> "object",
     data |-> [id |-> JsonValue(d.id), name |-> JsonValue(d.name), type |-> JsonValue(d.type),
               nodes |-> JsonArray(d.nodes), edges |-> JsonArray(d.edges),
               entryPoints |-> JsonValue(d.entryPoints),
               exitPoints |-> JsonValue(d.exitPoints),
               metadata |-> JsonObject(d.metadata)]]

\* exportAsJSON: the diagram spread into exportData, its metadata stamped
\* with the export time and the format version, written out as JSON.
ExportAsJSON(diagram, clock) ==
    JsonStringify([diagram EXCEPT !.metadata =
        [diagram.metadata EXCEPT !.t = "object", !.exported = IsoString(clock),
                                 !.version = Str("1.1")]])

-----------------------------------------------------------------------------
(* importFromJSON *)

\* Error messages; a TypeError or SyntaxError thrown by the runtime is caught
\* by the same catch block.
SyntaxError == "SyntaxError"
TypeError == "TypeError"

\* JSON.parse: the parsed value, or a SyntaxError for a text that is no JSON.
\* A top-level value that is no object has no properties.
JsonParse(text) ==
    IF text.syntax # "json" THEN [thrown |-> TRUE, top |-> "none", data |-> text.data]
    ELSE [thrown |-> FALSE, top |-> text.top, data |-> text.data]

\* The top-level checks: nodes and edges are arrays, entryPoints and
\* exitPoints are arrays when they are truthy.
ValidateTop(parsed) ==
    LET d == parsed.data IN
    IF parsed.top = "null" THEN TypeError
    ELSE IF ~Truthy(d.nodes) \/ ~IsArray(d.nodes)
    THEN "Invalid diagram format: missing or invalid nodes array"
    ELSE IF ~Truthy(d.edges) \/ ~IsArray(d.edges)
    THEN "Invalid diagram format: missing or invalid edges array"
    ELSE IF Truthy(d.entryPoints) /\ ~IsArray(d.entryPoints)
    THEN "Invalid diagram format: entryPoints must be an array"
    ELSE IF Truthy(d.exitPoints) /\ ~IsArray(d.exitPoints)
    THEN "Invalid diagram format: exitPoints must be an array"
    ELSE "ok"

\* A variant of ValidateNode that forgets to look at the label.
ValidateNodeNoLabel(node) ==
    IF node.t \in {"null", "undefined"} THEN TypeError
    ELSE IF ~Truthy(node.id) \/ ~Truthy(node.type) \/ ~Truthy(node.position)
    THEN "Invalid node structure in diagram"
    ELSE IF ~(node.type.t = "string" /\ node.type.v \in NodeKinds)
    THEN "Invalid node type"
    ELSE "ok"

\* The body of the node loop for one node.
ValidateNode(node) ==
    IF node.t \in {"null", "undefined"} THEN TypeError
    ELSE IF ~Truthy(node.id) \/ ~Truthy(node.type) \/ ~Truthy(node.position)
            \/ ~Truthy(node.label)
    THEN "Invalid node structure in diagram"
    ELSE IF ~(node.type.t = "string" /\ node.type.v \in NodeKinds)
    THEN "Invalid node type"
    ELSE "ok"

\* A variant of ValidateEdge that asks every edge, entry and exit arrows
\* included, for a source and a target.
ValidateEdgeNoExemption(edge) ==
    IF edge.t \in {"null", "undefined"} THEN TypeError
    ELSE IF ~Truthy(edge.id) \/ ~Truthy(edge.type)
    THEN "Invalid edge structure in diagram"
    ELSE IF ~Truthy(edge.source) \/ ~Truthy(edge.target)
    THEN "Invalid edge: missing source or target"
    ELSE "ok"

\* The body of the edge loop for one edge.
ValidateEdge(edge) ==
    IF edge.t \in {"null", "undefined"} THEN TypeError
    ELSE IF ~Truthy(edge.id) \/ ~Truthy(edge.type)
    THEN "Invalid edge structure in diagram"
    ELSE IF edge.type # Str("entry") /\ edge.type # Str("exit")
            /\ (~Truthy(edge.source) \/ ~Truthy(edge.target))
    THEN "Invalid edge: missing source or target"
    ELSE "ok"

\* A for..of loop that throws at the first element failing its check.
FirstNodeError(items) ==
    LET bad == {i \in 1..Len(items) : ValidateNode(items[i]) # "ok"} IN
    IF bad = {} THEN "ok"
    ELSE ValidateNode(items[CHOOSE i \in bad : \A k \in bad : i <= k])

FirstEdgeError(items) ==
    LET bad == {i \in 1..Len(items) : ValidateEdge(items[i]) # "ok"} IN
    IF bad = {} THEN "ok"
    ELSE ValidateEdge(items[CHOOSE i \in bad : \A k \in bad : i <= k])

\* The statements of the try block up to the construction of the diagram:
\* the error thrown first, or "ok".
ValidationError(text) ==
    LET parsed == JsonParse(text) IN
    IF parsed.thrown THEN SyntaxError
    ELSE IF ValidateTop(parsed) # "ok" THEN ValidateTop(parsed)
    ELSE IF FirstNodeError(parsed.data.nodes.items) # "ok"
    THEN FirstNodeError(parsed.data.nodes.items)
    ELSE FirstEdgeError(parsed.data.edges.items)

\* "Create proper diagram object".
BuildDiagram(d, clock) ==
    DiagramObject(OrElse(d.id, NowString(clock)),
                  OrElse(d.name, Str("Imported Diagram")),
                  OrElse(d.type, Str("HYBRID")),
                  d.nodes, d.edges,
                  OrElse(d.entryPoints, EmptyArray),
                  OrElse(d.exitPoints, EmptyArray),
                  Metadata(OrElse(d.metadata.created, IsoString(clock)),
                           IsoString(clock),
                           d.metadata.author,
                           d.metadata.description))

\* A variant of reader.onload that hands the diagram to onImport as soon as
\* the top-level and node checks have passed, before the edge loop runs.
ReaderOnLoadEager(text, confirmed, clock) ==
    LET error == ValidationError(text)
        parsed == JsonParse(text)
        early == /\ ~parsed.thrown
                 /\ ValidateTop(parsed) = "ok"
                 /\ FirstNodeError(parsed.data.nodes.items) = "ok"
    IN
    IF error # "ok"
    THEN [outcome |-> "error", alert |-> "Failed to import diagram: " \o error,
          onImport |-> IF early THEN BuildDiagram(parsed.data, clock) ELSE NoDiagram]
    ELSE IF confirmed
    THEN [outcome |-> "imported", alert |-> "none",
          onImport |-> BuildDiagram(parsed.data, clock)]
    ELSE [outcome |-> "cancelled", alert |-> "none", onImport |-> NoDiagram]

\* reader.onload: what the handler does with the text of the file, given the
\* user's answer to confirm(): the alert it shows ("none" for none) and the
\* diagram it hands to onImport (NoDiagram when onImport is not called).
ReaderOnLoad(text, confirmed, clock) ==
    LET error == ValidationError(text) IN
    IF error # "ok"
    THEN [outcome |-> "error", alert |-> "Failed to import diagram: " \o error,
          onImport |-> NoDiagram]
    ELSE IF confirmed
    THEN [outcome |-> "imported", alert |-> "none",
          onImport |-> BuildDiagram(JsonParse(text).data, clock)]
    ELSE [outcome |-> "cancelled", alert |-> "none", onImport |-> NoDiagram]

-----------------------------------------------------------------------------
(* Numbers of the geometry: exact rationals <<n, d>> with d > 0 *)

Abs(n) == IF n < 0 THEN -n ELSE n

RECURSIVE Gcd(_, _)
Gcd(a, b) == IF b = 0 THEN a ELSE Gcd(b, a % b)

Rat(n, d) ==
    LET g == Gcd(Abs(n), Abs(d))
        sgn == IF d < 0 THEN -1 ELSE 1
    IN <<(sgn * n) \div g, (sgn * d) \div g>>

FromInt(n) == <<n, 1>>
Zero == <<0, 1>>
RAdd(a, b) == Rat(a[1] * b[2] + b[1] * a[2], a[2] * b[2])
RSub(a, b) == Rat(a[1] * b[2] - b[1] * a[2], a[2] * b[2])
RMul(a, b) == Rat(a[1] * b[1], a[2] * b[2])
RDiv(a, b) == Rat(a[1] * b[2], a[2] * b[1])
RNeg(a) == <<-a[1], a[2]>>
RAbs(a) == <<Abs(a[1]), a[2]>>
RLess(a, b) == a[1] * b[2] < b[1] * a[2]
RMax(a, b) == IF RLess(a, b) THEN b ELSE a

\* Math.round: the nearest integer, halves rounded up.
Round(a) == FromInt((2 * a[1] + a[2]) \div (2 * a[2]))

RECURSIVE SqrtSearch(_, _, _)
SqrtSearch(n, lo, hi) ==
    IF lo >= hi THEN lo
    ELSE LET mid == (lo + hi + 1) \div 2 IN
         IF mid * mid <= n THEN SqrtSearch(n, mid, hi) ELSE SqrtSearch(n, lo, mid - 1)

\* The square root of a natural number that is a perfect square; the scenes
\* are chosen so that Math.sqrt is only asked for such roots, and any other
\* argument stops the evaluation.
IntSqrt(n) ==
    LET r == SqrtSearch(n, 0, IF n < 40000 THEN n ELSE 40000) IN
    CHOOSE x \in {r} : x * x = n

\* Math.sqrt of a rational square.
Sqrt(a) == <<IntSqrt(a[1]), IntSqrt(a[2])>>

\* A number as calculateEdgeOffset returns it: c + r * fn(deg degrees + rad
\* radians), fn being Math.cos or Math.sin; r is zero for a plain number.
Plain(c) == [c |-> c, r |-> Zero, fn |-> "none", deg |-> 0, rad |-> Zero]
Polar(c, r, fn, deg, rad) == [c |-> c, r |-> r, fn |-> fn, deg |-> deg, rad |-> rad]

-----------------------------------------------------------------------------
(* SimpleApp: nodes, edges and calculateEdgeOffset *)

\* null as the source or target of an edge; no node has this id.
NullId == "null"

\* A node of SimpleApp; size is style?.size, "undefined" when there is none.
SimpleNode(id, type, x, y, size) ==
    [id |-> id, type |-> type, position |-> [x |-> x, y |-> y], size |-> size]

SimpleEdge(id, source, target, type) ==
    [id |-> id, source |-> source, target |-> target, type |-> type]

\* What Array.find returns when no element matches.
UndefinedNode == SimpleNode("undefined", "undefined", 0, 0, "undefined")
NoEdge == [id |-> "none"]

\* A variant of the lookup that falls back on the first node.
FindNodeOrFirst(id) ==
    LET hits == {i \in 1..Len(nodes) : nodes[i].id = id} IN
    IF hits = {} THEN (IF nodes = <<>> THEN UndefinedNode ELSE nodes[1])
    ELSE nodes[CHOOSE i \in hits : \A k \in hits : i <= k]

\* nodes.find(n => n.id === id)
FindNode(id) ==
    LET hits == {i \in 1..Len(nodes) : nodes[i].id = id} IN
    IF hits = {} THEN UndefinedNode
    ELSE nodes[CHOOSE i \in hits : \A k \in hits : i <= k]

\* A variant of getNodeDimensions that takes the radius of the utils version
\* (25 scaled) for the width.
GetNodeDimensionsNarrow(node) ==
    LET sizeMultiplier == IF node.size = "small" THEN <<4, 5>>
                          ELSE IF node.size = "large" THEN <<13, 10>> ELSE <<1, 1>>
    IN [width |-> Round(RMul(FromInt(25), sizeMultiplier)),
        height |-> Round(RMul(FromInt(50), sizeMultiplier)),
        radius |-> Round(RMul(FromInt(25), sizeMultiplier))]

\* getNodeDimensions of App-simple.tsx
GetNodeDimensions(node) ==
    LET sizeMultiplier == IF node.size = "small" THEN <<4, 5>>
                          ELSE IF node.size = "large" THEN <<13, 10>> ELSE <<1, 1>>
    IN
    IF node.type = "test"
    THEN LET adjustedSize == Round(RMul(FromInt(70), sizeMultiplier)) IN
         [width |-> adjustedSize, height |-> adjustedSize,
          radius |-> RDiv(adjustedSize, FromInt(2))]
    ELSE [width |-> Round(RMul(FromInt(100), sizeMultiplier)),
          height |-> Round(RMul(FromInt(50), sizeMultiplier)),
          radius |-> Round(RDiv(RMul(FromInt(100), sizeMultiplier), FromInt(2)))]

\* Edge ids in the order localeCompare puts them.
EdgeIds ==
    <<"e01", "e02", "e03", "e04", "e05", "e06", "e07", "e08", "e09", "e10",
      "e11", "e12", "e13", "e14", "e15", "e16", "e17", "e18", "e19", "e20">>

Rank(id) == CHOOSE i \in 1..Len(EdgeIds) : EdgeIds[i] = id

\* a.id.localeCompare(b.id) < 0, = 0, > 0
LocaleCompare(a, b) == Rank(a) - Rank(b)

RECURSIVE InsertById(_, _)
InsertById(e, sorted) ==
    IF sorted = <<>> THEN <<e>>
    ELSE IF LocaleCompare(e.id, Head(sorted).id) <= 0 THEN <<e>> \o sorted
    ELSE <<Head(sorted)>> \o InsertById(e, Tail(sorted))

\* A variant that leaves the list in the order it came in.
SortByIdNot(list) == list

\* list.sort((a, b) => a.id.localeCompare(b.id)); the sort is stable.
RECURSIVE SortById(_)
SortById(list) ==
    IF list = <<>> THEN <<>> ELSE InsertById(Head(list), SortById(Tail(list)))

\* list.filter(keep), keep given as the set of indices to keep.
RECURSIVE FilterFrom(_, _, _)
FilterFrom(list, keep, i) ==
    IF i > Len(list) THEN <<>>
    ELSE (IF i \in keep THEN <<list[i]>> ELSE <<>>) \o FilterFrom(list, keep, i + 1)

\* e.source && e.target: both are set and not the empty string.
HasBothEnds(e) == e.source \notin {NullId, ""} /\ e.target \notin {NullId, ""}

\* list.findIndex(e => e.id === id): zero-based, -1 when there is none.
FindIndex(list, id) ==
    LET hits == {i \in 1..Len(list) : list[i].id = id} IN
    IF hits = {} THEN -1 ELSE (CHOOSE i \in hits : \A k \in hits : i <= k) - 1

SameDirectionEdges(edge, allEdges) ==
    SortById(FilterFrom(allEdges,
        {i \in 1..Len(allEdges) : /\ HasBothEnds(allEdges[i])
                                  /\ allEdges[i].source = edge.source
                                  /\ allEdges[i].target = edge.target}, 1))

OppositeDirectionEdges(edge, allEdges) ==
    SortById(FilterFrom(allEdges,
        {i \in 1..Len(allEdges) : /\ HasBothEnds(allEdges[i])
                                  /\ allEdges[i].source = edge.target
                                  /\ allEdges[i].target = edge.source}, 1))

SelfEdges(node, allEdges) ==
    SortById(FilterFrom(allEdges,
        {i \in 1..Len(allEdges) : /\ allEdges[i].source = node.id
                                  /\ allEdges[i].target = node.id}, 1))

\* The angular centre of a self-loop, in degrees: loops are spread around the
\* node in id order.
\* A variant that spreads the loops 45 degrees apart.
LoopAngleOffsetNarrow(edge, selfEdges) ==
    LET edgeIndex == FindIndex(selfEdges, edge.id) IN
    (edgeIndex * 45) - ((Len(selfEdges) - 1) * 30)

LoopAngleOffset(edge, selfEdges) ==
    LET edgeIndex == FindIndex(selfEdges, edge.id) IN
    (edgeIndex * 60) - ((Len(selfEdges) - 1) * 30)

\* The branch for self-referencing edges: the ends of an arc around the node.
SelfLoopArc(edge, sourceNode, allEdges) ==
    LET nodeDim == GetNodeDimensions(sourceNode)
        radius == RDiv(RMax(nodeDim.width, nodeDim.height), FromInt(2))
        selfEdges == SelfEdges(sourceNode, allEdges)
        angleOffset == LoopAngleOffset(edge, selfEdges)
        reach == RAdd(radius, FromInt(10))
        px == FromInt(sourceNode.position.x)
        py == FromInt(sourceNode.position.y)
    IN [x1 |-> Polar(px, reach, "cos", angleOffset, <<-3, 10>>),
        y1 |-> Polar(py, reach, "sin", angleOffset, <<-3, 10>>),
        x2 |-> Polar(px, reach, "cos", angleOffset, <<3, 10>>),
        y2 |-> Polar(py, reach, "sin", angleOffset, <<3, 10>>)]

\* A variant that curves an edge away from the opposite direction only when
\* it is the single edge of its own direction.
PerpOffsetUncurved(edge, sameDirectionEdges, oppositeDirectionEdges) ==
    LET edgeIndex == FindIndex(sameDirectionEdges, edge.id)
        totalEdges == IF Len(sameDirectionEdges) < 3 THEN Len(sameDirectionEdges) ELSE 3
        spacing == IF totalEdges = 2 THEN 25 ELSE 30
        parallel == IF Len(sameDirectionEdges) > 1 /\ edgeIndex # -1
                    THEN RMul(RSub(FromInt(edgeIndex), Rat(totalEdges - 1, 2)),
                              FromInt(spacing))
                    ELSE Zero
    IN IF Len(oppositeDirectionEdges) > 0 /\ Len(sameDirectionEdges) = 1
       THEN FromInt(35)
       ELSE parallel

\* A variant that spaces two parallel edges like three or more.
PerpOffsetWide(edge, sameDirectionEdges, oppositeDirectionEdges) ==
    LET edgeIndex == FindIndex(sameDirectionEdges, edge.id)
        totalEdges == IF Len(sameDirectionEdges) < 3 THEN Len(sameDirectionEdges) ELSE 3
        parallel == IF Len(sameDirectionEdges) > 1 /\ edgeIndex # -1
                    THEN RMul(RSub(FromInt(edgeIndex), Rat(totalEdges - 1, 2)), FromInt(30))
                    ELSE Zero
    IN IF Len(oppositeDirectionEdges) > 0
       THEN (IF Len(sameDirectionEdges) = 1 THEN FromInt(35)
             ELSE RAdd(parallel, FromInt(35)))
       ELSE parallel

\* The perpendicular offset of an edge among the edges of its direction and
\* of the opposite direction.
PerpOffset(edge, sameDirectionEdges, oppositeDirectionEdges) ==
    LET edgeIndex == FindIndex(sameDirectionEdges, edge.id)
        totalEdges == IF Len(sameDirectionEdges) < 3 THEN Len(sameDirectionEdges) ELSE 3
        spacing == IF totalEdges = 2 THEN 25 ELSE 30
        parallel == IF Len(sameDirectionEdges) > 1 /\ edgeIndex # -1
                    THEN RMul(RSub(FromInt(edgeIndex), Rat(totalEdges - 1, 2)),
                              FromInt(spacing))
                    ELSE Zero
        baseCurve == 35
    IN IF Len(oppositeDirectionEdges) > 0
       THEN (IF Len(sameDirectionEdges) = 1 THEN FromInt(baseCurve)
             ELSE RAdd(parallel, FromInt(baseCurve)))
       ELSE parallel

\* calculateIntersectionDistance: how far from the centre of the node the
\* line of direction (dirX, dirY) is taken to cross its outline.
CalculateIntersectionDistance(node, dim, dirX, dirY) ==
    IF node.type = "vocabulary"
    THEN LET rx == RDiv(dim.width, FromInt(2))
             ry == RDiv(dim.height, FromInt(2))
             cosTheta == RAbs(dirX)
             sinTheta == RAbs(dirY)
         IN RDiv(FromInt(1),
                 Sqrt(RAdd(RDiv(RMul(cosTheta, cosTheta), RMul(rx, rx)),
                           RDiv(RMul(sinTheta, sinTheta), RMul(ry, ry)))))
    ELSE IF node.type = "test"
    THEN RMul(dim.radius, <<6, 5>>)
    ELSE LET halfWidth == RDiv(dim.width, FromInt(2))
             halfHeight == RDiv(dim.height, FromInt(2))
         IN IF RLess(RAbs(dirY), RAbs(dirX))
            THEN RDiv(halfWidth, RAbs(dirX))
            ELSE RDiv(halfHeight, RAbs(dirY))

DegenerateSegment ==
    [x1 |-> Plain(Zero), y1 |-> Plain(Zero), x2 |-> Plain(Zero), y2 |-> Plain(Zero)]

\* The branch for an edge between two different nodes.
StraightSegment(edge, sourceNode, targetNode, allEdges) ==
    LET dx == FromInt(targetNode.position.x - sourceNode.position.x)
        dy == FromInt(targetNode.position.y - sourceNode.position.y)
        length == Sqrt(RAdd(RMul(dx, dx), RMul(dy, dy)))
    IN
    IF length = Zero
    THEN [x1 |-> Plain(FromInt(sourceNode.position.x)),
          y1 |-> Plain(FromInt(sourceNode.position.y)),
          x2 |-> Plain(FromInt(targetNode.position.x)),
          y2 |-> Plain(FromInt(targetNode.position.y))]
    ELSE
    LET dirX == RDiv(dx, length)
        dirY == RDiv(dy, length)
        perpOffset == PerpOffset(edge, SameDirectionEdges(edge, allEdges),
                                 OppositeDirectionEdges(edge, allEdges))
        sourceDim == GetNodeDimensions(sourceNode)
        targetDim == GetNodeDimensions(targetNode)
        sourceRadius == CalculateIntersectionDistance(sourceNode, sourceDim, dirX, dirY)
        targetRadius == CalculateIntersectionDistance(targetNode, targetDim, dirX, dirY)
        shiftX == RDiv(RMul(perpOffset, RNeg(dy)), length)
        shiftY == RDiv(RMul(perpOffset, dx), length)
        sourceCenterX == RAdd(FromInt(sourceNode.position.x), shiftX)
        sourceCenterY == RAdd(FromInt(sourceNode.position.y), shiftY)
        targetCenterX == RAdd(FromInt(targetNode.position.x), shiftX)
        targetCenterY == RAdd(FromInt(targetNode.position.y), shiftY)
    IN [x1 |-> Plain(RAdd(sourceCenterX, RMul(dirX, sourceRadius))),
        y1 |-> Plain(RAdd(sourceCenterY, RMul(dirY, sourceRadius))),
        x2 |-> Plain(RSub(targetCenterX, RMul(dirX, targetRadius))),
        y2 |-> Plain(RSub(targetCenterY, RMul(dirY, targetRadius)))]

\* calculateEdgeOffset(edge, allEdges), reading the nodes state.
CalculateEdgeOffset(edge, allEdges) ==
    LET sourceNode == FindNode(edge.source)
        targetNode == FindNode(edge.target)
    IN
    IF sourceNode = UndefinedNode \/ targetNode = UndefinedNode THEN DegenerateSegment
    ELSE IF sourceNode.id = targetNode.id THEN SelfLoopArc(edge, sourceNode, allEdges)
    ELSE StraightSegment(edge, sourceNode, targetNode, allEdges)

-----------------------------------------------------------------------------
(* The diagrams and files the importer and exporter are run on *)

Point1 == Obj("{x:100,y:100}")
Point2 == Obj("{x:300,y:100}")
N1 == NodeObject(Str("n1"), Str("vocabulary"), Point1, Str("Vocabulary 1"))
N2 == NodeObject(Str("n2"), Str("practice"), Point2, Str("Practice 2"))
\* a node whose label was edited to the empty string (updateNode)
NUnlabelled == NodeObject(Str("n3"), Str("test"), Point2, Str(""))
E1 == EdgeObject(Str("e1"), Str("VP"), Str("n1"), Str("n2"))
\* an entry arrow as SimpleApp.addNode creates it
EEntry == EdgeObject(Str("e2"), Str("entry"), Null, Str("standalone"))

\* Diagrams of the store: id, name, type and the node fields are strings,
\* the name and a label may be empty.
InitialDiagrams ==
    { DiagramObject(Str("d1"), Str(name), Str("MUD"), ArrayOf(ns), ArrayOf(<<E1, EEntry>>),
                    Undefined, Undefined,
                    Metadata(IsoString(0), IsoString(0), Str("ann"), Undefined)) :
        name \in {"Untitled Diagram", ""},
        ns \in {<<N1, N2>>, <<N1, NUnlabelled>>} }
    \cup { DiagramObject(Str("d0"), Str("Untitled Diagram"), Str("HYBRID"), ArrayOf(<<>>),
                         ArrayOf(<<>>), Undefined, Undefined,
                         Metadata(IsoString(0), IsoString(0), Undefined, Undefined)) }

\* The values a property of a hand-written file is given.
Falsy == {Undefined, Null, Str(""), Num("0"), Bool("false")}
NonArrays == Falsy \cup {Num("1"), Str("x"), Obj("{}")}

GoodData ==
    DiagramObject(Str("d9"), Str("Sketch"), Str("TOTE"), ArrayOf(<<N1, N2>>),
                  ArrayOf(<<E1>>), Undefined, Undefined,
                  Metadata(IsoString(0), IsoString(0), Undefined, Undefined))

NoProperties ==
    DiagramObject(Undefined, Undefined, Undefined, NotAnArray(Undefined),
                  NotAnArray(Undefined), Undefined, Undefined, NoMetadata)

JsonText(data) == [syntax |-> "json", top |-> "object", data |-> data]

\* Node elements of hand-written files: one property of a good node replaced,
\* an unknown kind, and elements that are no objects.
NodeElements ==
    {[N2 EXCEPT ![f] = j] : f \in {"id", "type", "position", "label"},
                            j \in {Undefined, Null, Str(""), Num("0")}}
    \cup {[N2 EXCEPT !.type = Str(k)] : k \in {"circle", "exit"}}
    \cup {NonObject(j, N2) : j \in {Null, Num("5")}}

\* Edge elements of hand-written files.
EdgeElements ==
    {[E1 EXCEPT ![f] = j] : f \in {"id", "type"}, j \in {Undefined, Str("")}}
    \cup {[E1 EXCEPT ![f] = j] : f \in {"source", "target"}, j \in {Undefined, Null, Str("")}}
    \cup {EdgeObject(Str("e7"), Str("entry"), Null, Str("n2")),
          EdgeObject(Str("e7"), Str("entry"), Undefined, Undefined),
          EdgeObject(Str("e7"), Str("exit"), Str("n1"), Null),
          EdgeObject(Str("e7"), Str("link"), Str("n1"), Str("n2")),
          EdgeObject(Str("e7"), Str("link"), Null, Str("n2"))}
    \cup {NonObject(Null, E1)}

HandFiles ==
    {[syntax |-> "garbage", top |-> "none", data |-> NoProperties],
     [syntax |-> "json", top |-> "null", data |-> NoProperties],
     [syntax |-> "json", top |-> "number", data |-> NoProperties],
     JsonText(GoodData)}
    \cup {JsonText([GoodData EXCEPT ![f] = NotAnArray(j)]) :
              f \in {"nodes", "edges"}, j \in {Undefined, Null, Obj("{}")}}
    \cup {JsonText([GoodData EXCEPT !.entryPoints = j]) : j \in NonArrays \cup {EmptyArray}}
    \cup {JsonText([GoodData EXCEPT !.exitPoints = j]) : j \in {Num("0"), Obj("{}"), Null}}
    \cup {JsonText([GoodData EXCEPT !.name = Undefined]),
          JsonText([GoodData EXCEPT !.id = Undefined, !.type = Undefined,
                                    !.metadata = NoMetadata])}
    \cup {JsonText([GoodData EXCEPT !.nodes = ArrayOf(<<N1, n>>)]) : n \in NodeElements}
    \cup {JsonText([GoodData EXCEPT !.nodes = ArrayOf(<<NonObject(Num("5"), N2), N2>>)])}
    \cup {JsonText([GoodData EXCEPT !.edges = ArrayOf(<<E1, e>>)]) : e \in EdgeElements}

-----------------------------------------------------------------------------
(* The importer and the exporter as the user drives them *)

\* Geometry is idle while the import/export machine runs.
GeomIdle ==
    /\ nodes = <<>>
    /\ edges = <<>>
    /\ drawn = NoEdge
    /\ coords = [kind |-> "none"]

InitImport ==
    /\ currentDiagram \in InitialDiagrams
    /\ file = NoFile
    /\ fileOrigin = NoDiagram
    /\ outcome = "none"
    /\ alertMessage = "none"
    /\ now = 0
    /\ GeomIdle
    /\ StyleIdle
    /\ UiIdle

\* The user exports the current diagram; the browser downloads the file.
ExportJSON ==
    /\ file' = ExportAsJSON(currentDiagram, now)
    /\ fileOrigin' = currentDiagram
    /\ outcome' = "none"
    /\ UNCHANGED <<currentDiagram, alertMessage, now>>
    /\ UNCHANGED geomVars
    /\ UNCHANGED styleVars
    /\ UNCHANGED uiVars

\* importFromJSON(onImport) with onImport = loadDiagram: the user picks a file
\* (a hand-written one or the one exported last), the reader loads its text and
\* the user answers the confirmation when it is asked.
ImportJSON(text, confirmed) ==
    LET r == ReaderOnLoad(text, confirmed, now) IN
    /\ file' = text
    /\ fileOrigin' = IF text = file THEN fileOrigin ELSE NoDiagram
    /\ outcome' = r.outcome
    /\ alertMessage' = IF r.alert # "none" THEN r.alert ELSE alertMessage
    /\ currentDiagram' = IF r.onImport # NoDiagram THEN r.onImport ELSE currentDiagram
    /\ UNCHANGED now
    /\ UNCHANGED geomVars
    /\ UNCHANGED styleVars
    /\ UNCHANGED uiVars

\* Time passes between two events.
Tick ==
    /\ now < MaxClock
    /\ now' = now + 1
    /\ UNCHANGED <<currentDiagram, file, fileOrigin, outcome, alertMessage>>
    /\ UNCHANGED geomVars
    /\ UNCHANGED styleVars
    /\ UNCHANGED uiVars

ImportSomeFile ==
    \E text \in HandFiles \cup (IF file = NoFile THEN {} ELSE {file}) :
        \* confirm() is only reached, and answered, when nothing was thrown
        \E confirmed \in (IF ValidationError(text) = "ok" THEN BOOLEAN ELSE {FALSE}) :
            ImportJSON(text, confirmed)

NextImport ==
    \/ ExportJSON
    \/ ImportSomeFile
    \/ Tick

SpecImport == InitImport /\ [][NextImport]_vars

-----------------------------------------------------------------------------
(* Properties of the importer and the exporter *)

\* The file was handed to reader.onload (an exported file that was not imported
\* yet has outcome "none").
FileWasRead == file # NoFile /\ outcome # "none"

IsJsonObject(text) == text.syntax = "json" /\ text.top = "object"

\* A property that is absent, null or the empty string.
MissingOrEmpty(j) == j.t \in {"undefined", "null"} \/ (j.t = "string" /\ j.v = "")

\* C1: importFromJSON is all-or-nothing. In every step that leaves a file read
\* on which JSON.parse or a validation step threw, the caller's diagram is what
\* it was before the step (onImport was not invoked) and the alert naming the
\* error has been shown.
C1_AllOrNothing ==
    [][ (outcome' # "none" /\ ValidationError(file') # "ok")
        => /\ currentDiagram' = currentDiagram
           /\ outcome' = "error"
           /\ alertMessage' = "Failed to import diagram: " \o ValidationError(file') ]_vars

\* A file whose nodes pass and whose second edge is a PV edge without a source
\* was read and rejected while a diagram with nodes and edges was open.
C1_Witness ==
    /\ FileWasRead
    /\ file = JsonText([GoodData EXCEPT !.edges = ArrayOf(<<E1, [E1 EXCEPT !.source = Undefined]>>)])
    /\ outcome = "error"
    /\ alertMessage = "Failed to import diagram: Invalid edge: missing source or target"
    /\ Len(currentDiagram.nodes.items) = 2
    /\ currentDiagram.id = Str("d1")

\* The diagram fields the round trip must preserve.
SameDiagram(a, b) ==
    /\ a.id = b.id /\ a.name = b.name /\ a.type = b.type
    /\ a.nodes = b.nodes /\ a.edges = b.edges
    /\ a.metadata.created = b.metadata.created
    /\ a.metadata.author = b.metadata.author
    /\ a.metadata.description = b.metadata.description

\* C2: round trip. Whenever the file that was read is the file exportAsJSON
\* wrote for a diagram D, the importer accepts it, and when the user confirms
\* the imported diagram equals D in id, name, type, nodes, edges and the
\* created/author/description metadata.
C2_RoundTrip ==
    (FileWasRead /\ fileOrigin # NoDiagram)
    => /\ outcome # "error"
       /\ outcome = "imported" => SameDiagram(currentDiagram, fileOrigin)

\* What the claim calls a node that must be rejected.
BadNode(n) ==
    \/ n.t # "object"
    \/ \E f \in {"id", "type", "position", "label"} : MissingOrEmpty(n[f])
    \/ ~(n.type.t = "string"
          /\ n.type.v \in {"vocabulary", "practice", "test", "operate", "exit"})

HasBadNode(text) ==
    /\ IsJsonObject(text)
    /\ text.data.nodes.t = "array"
    /\ \E i \in 1..Len(text.data.nodes.items) : BadNode(text.data.nodes.items[i])

\* C3: a file that was read and holds a node without a non-empty id, type,
\* position or label, or of a kind other than the five node kinds, was rejected;
\* so a file that was accepted holds only nodes that pass both checks.
C3_BadNodeRejected ==
    (FileWasRead /\ HasBadNode(file)) => outcome = "error"

\* A file whose only fault is a node with an empty label was rejected with the
\* node-structure error.
C3_Witness ==
    /\ FileWasRead
    /\ file = JsonText([GoodData EXCEPT !.nodes = ArrayOf(<<N1, [N2 EXCEPT !.label = Str("")]>>)])
    /\ outcome = "error"
    /\ alertMessage = "Failed to import diagram: Invalid node structure in diagram"

\* What the claim calls an edge that must be rejected.
BadEdge(e) ==
    \/ e.t # "object"
    \/ MissingOrEmpty(e.id) \/ MissingOrEmpty(e.type)
    \/ /\ e.type \notin {Str("entry"), Str("exit")}
       /\ (MissingOrEmpty(e.source) \/ MissingOrEmpty(e.target))

HasBadEdge(text) ==
    /\ IsJsonObject(text)
    /\ text.data.edges.t = "array"
    /\ \E i \in 1..Len(text.data.edges.items) : BadEdge(text.data.edges.items[i])

EdgeErrors ==
    {"Failed to import diagram: Invalid edge structure in diagram",
     "Failed to import diagram: Invalid edge: missing source or target"}

\* C4: a file that was read and holds an edge without a non-empty id or type,
\* or an edge that is neither an entry nor an exit arrow and has no non-empty
\* source or target, was rejected; and an edge error is only ever raised for
\* such an edge, so entry and exit arrows pass without source and target.
C4_BadEdgeRejected ==
    /\ (FileWasRead /\ HasBadEdge(file)) => outcome = "error"
    /\ (FileWasRead /\ outcome = "error" /\ alertMessage \in EdgeErrors) => HasBadEdge(file)

\* A file with an entry arrow that has neither source nor target was accepted
\* and its edges were handed to the caller.
C4_Witness ==
    /\ FileWasRead
    /\ outcome = "imported"
    /\ currentDiagram.edges =
           ArrayOf(<<E1, EdgeObject(Str("e7"), Str("entry"), Undefined, Undefined)>>)

\* C5: a file that was read and whose entryPoints (or exitPoints) property is
\* present and is not an array was rejected.
C5_NonArrayPointsRejected ==
    (/\ FileWasRead
     /\ IsJsonObject(file)
     /\ \E f \in {"entryPoints", "exitPoints"} :
            file.data[f].t \notin {"undefined", "array"})
    => outcome = "error"

-----------------------------------------------------------------------------
(* The scenes calculateEdgeOffset is run on *)

\* The node kinds of SimpleApp and the sizes of the customization panel
\* ("undefined": no style, which reads as medium).
SimpleNodeTypes == {"vocabulary", "practice", "test", "operate"}
Sizes == {"undefined", "small", "large"}

\* Node A sits at (100, 100); node B to its right, below it, on one of two
\* diagonals with a whole-number distance, or on top of it.
PositionsOfB == {<<300, 100>>, <<100, 400>>, <<400, 500>>, <<500, 400>>, <<100, 100>>}
AxisAligned(pos) == pos[1] = 100 \/ pos[2] = 100

\* n edges from source to target
Repeat(n, source, target) == [i \in 1..n |-> [source |-> source, target |-> target]]

\* The edges state holding the given ends: ids fall along the list, so that
\* sorting by id is not the order of the list.
WithIds(ends) ==
    [i \in 1..Len(ends) |->
        SimpleEdge(EdgeIds[Len(ends) + 1 - i], ends[i].source, ends[i].target,
                   IF ends[i].source = NullId THEN "entry"
                   ELSE IF ends[i].target = NullId THEN "exit" ELSE "PP")]

\* Two nodes joined by edges in one or both directions. The border distance
\* of an ellipse along a diagonal is irrational, so a scene with a vocabulary
\* node keeps the two nodes on one axis.
StraightScenes ==
    { [nodes |-> <<SimpleNode("A", ta, 100, 100, sa), SimpleNode("B", tb, pos[1], pos[2], sb)>>,
       edges |-> WithIds(Repeat(nab, "A", "B") \o Repeat(nba, "B", "A"))] :
        ta \in SimpleNodeTypes, tb \in SimpleNodeTypes, sa \in Sizes, sb \in Sizes,
        pos \in PositionsOfB, nab \in 1..MaxParallel, nba \in 0..MaxOpposite }

\* Self-loops on A and on B beside an entry arrow, an exit arrow and an edge
\* whose target node G was deleted.
LoopScenes ==
    { [nodes |-> <<SimpleNode("A", ta, 100, 100, sa), SimpleNode("B", "practice", 300, 100, "undefined")>>,
       edges |-> WithIds(Repeat(nbb, "B", "B") \o Repeat(naa, "A", "A")
                         \o <<[source |-> NullId, target |-> "standalone"],
                              [source |-> "A", target |-> NullId],
                              [source |-> "A", target |-> "G"]>>)] :
        ta \in SimpleNodeTypes, sa \in Sizes, naa \in 0..MaxLoops, nbb \in 0..1 }

Scenes ==
    { sc \in StraightScenes :
        \/ AxisAligned(<<sc.nodes[2].position.x, sc.nodes[2].position.y>>)
        \/ "vocabulary" \notin {sc.nodes[1].type, sc.nodes[2].type} }
    \cup LoopScenes

\* The importer is idle while edges are laid out.
ImportIdle ==
    /\ currentDiagram = NoDiagram
    /\ file = NoFile
    /\ fileOrigin = NoDiagram
    /\ outcome = "none"
    /\ alertMessage = "none"
    /\ now = 0

InitGeom ==
    /\ \E sc \in Scenes : nodes = sc.nodes /\ edges = sc.edges
    /\ drawn = NoEdge
    /\ coords = [kind |-> "none"]
    /\ ImportIdle
    /\ StyleIdle
    /\ UiIdle

\* The renderer asks for the ends of one edge: calculateEdgeOffset(edge, edges).
DrawEdge(i) ==
    /\ drawn' = edges[i]
    /\ coords' = CalculateEdgeOffset(edges[i], edges)
    /\ UNCHANGED <<nodes, edges>>
    /\ UNCHANGED importVars
    /\ UNCHANGED styleVars
    /\ UNCHANGED uiVars

NextGeom == \E i \in 1..Len(edges) : DrawEdge(i)

SpecGeom == InitGeom /\ [][NextGeom]_vars

-----------------------------------------------------------------------------
(* Properties of calculateEdgeOffset *)

HasNode(id) == \E i \in 1..Len(nodes) : nodes[i].id = id
NodeOf(id) == nodes[CHOOSE i \in 1..Len(nodes) : nodes[i].id = id]
EdgeDrawn == drawn # NoEdge

\* The drawn edge joins two different nodes of the scene that are not at the
\* same place.
StraightDrawn ==
    /\ EdgeDrawn
    /\ HasNode(drawn.source) /\ HasNode(drawn.target)
    /\ drawn.source # drawn.target
    /\ NodeOf(drawn.source).position # NodeOf(drawn.target).position

\* The unit vector from the source centre of the drawn edge to its target centre
UnitDirection ==
    LET s == NodeOf(drawn.source).position
        t == NodeOf(drawn.target).position
        dx == FromInt(t.x - s.x)
        dy == FromInt(t.y - s.y)
        length == Sqrt(RAdd(RMul(dx, dx), RMul(dy, dy)))
    IN [x |-> RDiv(dx, length), y |-> RDiv(dy, length)]

BorderDistance(node) ==
    CalculateIntersectionDistance(node, GetNodeDimensions(node), UnitDirection.x, UnitDirection.y)

RSquare(a) == RMul(a, a)
RLeq(a, b) == ~RLess(b, a)

\* C6: whenever the source or the target id of the edge is not the id of a
\* node of the current list (a null end of an entry or exit edge included),
\* calculateEdgeOffset returns {x1: 0, y1: 0, x2: 0, y2: 0}, whatever the
\* other edges are.
C6_DanglingIsDegenerate ==
    (EdgeDrawn /\ (~HasNode(drawn.source) \/ ~HasNode(drawn.target)))
        => /\ coords.x1 = Plain(FromInt(0)) /\ coords.y1 = Plain(FromInt(0))
           /\ coords.x2 = Plain(FromInt(0)) /\ coords.y2 = Plain(FromInt(0))

\* An edge from A to the deleted node G was laid out among self-loops.
C6_Witness ==
    /\ EdgeDrawn
    /\ drawn.source = "A" /\ drawn.target = "G" /\ ~HasNode("G")
    /\ Len(edges) > 4
    /\ coords.x1 = Plain(FromInt(0)) /\ coords.y2 = Plain(FromInt(0))

\* The border point of a node lies on the outline of its rectangle.
OnRectangle(node) ==
    LET dim == GetNodeDimensions(node)
        halfWidth == RDiv(dim.width, FromInt(2))
        halfHeight == RDiv(dim.height, FromInt(2))
        offsetX == RAbs(RMul(UnitDirection.x, BorderDistance(node)))
        offsetY == RAbs(RMul(UnitDirection.y, BorderDistance(node)))
    IN /\ RLeq(offsetX, halfWidth)
       /\ RLeq(offsetY, halfHeight)
       /\ (offsetX = halfWidth \/ offsetY = halfHeight)

\* C7: for a rectangle node (practice, operate) and every non-zero
\* direction, the border point that calculateIntersectionDistance gives lies
\* on the outline of the rectangle: |offsetX| <= halfWidth and
\* |offsetY| <= halfHeight, with equality in at least one of the two.
C7_RectangleBorderOnOutline ==
    StraightDrawn =>
        \A id \in {drawn.source, drawn.target} :
            NodeOf(id).type \in {"practice", "operate"} => OnRectangle(NodeOf(id))

\* C8: for every straight edge between two nodes that are not at the same
\* place, whatever edges share its pair of ends, the distance from the source
\* centre to (x1, y1) is the border distance of the source along the line of
\* centres, and likewise for the target and (x2, y2).
C8_BorderTouch ==
    StraightDrawn =>
        LET s == NodeOf(drawn.source)
            t == NodeOf(drawn.target)
        IN /\ RAdd(RSquare(RSub(coords.x1.c, FromInt(s.position.x))),
                   RSquare(RSub(coords.y1.c, FromInt(s.position.y))))
                = RSquare(BorderDistance(s))
           /\ RAdd(RSquare(RSub(coords.x2.c, FromInt(t.position.x))),
                   RSquare(RSub(coords.y2.c, FromInt(t.position.y))))
                = RSquare(BorderDistance(t))

\* Half the width of an ellipse or rectangle node: 100 wide at medium size,
\* 80 when small, 130 when large.
HalfWidth(node) == IF node.size = "small" THEN 40 ELSE IF node.size = "large" THEN 65 ELSE 50

\* No other edge joins the two ends of the drawn edge, in either direction.
DrawnAlone ==
    \A i \in 1..Len(edges) :
        {edges[i].source, edges[i].target} = {drawn.source, drawn.target}
            => edges[i].id = drawn.id

\* The drawn edge is horizontal and joins ellipse or rectangle nodes.
HorizontalDrawn ==
    /\ StraightDrawn
    /\ NodeOf(drawn.source).position.y = NodeOf(drawn.target).position.y
    /\ NodeOf(drawn.source).type \in {"vocabulary", "practice", "operate"}
    /\ NodeOf(drawn.target).type \in {"vocabulary", "practice", "operate"}

\* C9: for a horizontal edge between ellipse or rectangle nodes with no
\* parallel or opposite edge, each end is the node centre moved by half the
\* width of the node toward the other node; for a medium vocabulary node at
\* (100,100) and a medium practice node at (300,100) that is
\* (150, 100) and (250, 100).
C9_HorizontalEndpoints ==
    (HorizontalDrawn /\ DrawnAlone) =>
        LET s == NodeOf(drawn.source)
            t == NodeOf(drawn.target)
            toward == IF s.position.x < t.position.x THEN 1 ELSE -1
        IN /\ coords.x1 = Plain(FromInt(s.position.x + toward * HalfWidth(s)))
           /\ coords.y1 = Plain(FromInt(s.position.y))
           /\ coords.x2 = Plain(FromInt(t.position.x - toward * HalfWidth(t)))
           /\ coords.y2 = Plain(FromInt(t.position.y))

\* The two-node scenario: A medium vocabulary at (100,100), B medium practice
\* at (300,100), one edge from A to B, laid out from (150,100) to (250,100).
C9_Witness ==
    /\ nodes = <<SimpleNode("A", "vocabulary", 100, 100, "undefined"),
                 SimpleNode("B", "practice", 300, 100, "undefined")>>
    /\ Len(edges) = 1
    /\ EdgeDrawn /\ drawn.source = "A" /\ drawn.target = "B"
    /\ coords = [x1 |-> Plain(FromInt(150)), y1 |-> Plain(FromInt(100)),
                 x2 |-> Plain(FromInt(250)), y2 |-> Plain(FromInt(100))]

\* The direction of the centre of a self-loop arc, in degrees from 0 to 359
ArcDirection(arc) == arc.x1.deg % 360

\* C10: when a node has two or more self-loop edges, no two of them are laid
\* out on the same arc: the angular centres calculateEdgeOffset assigns are
\* pairwise distinct modulo 360 degrees.
C10_LoopDirectionsDistinct ==
    (EdgeDrawn /\ HasNode(drawn.source) /\ drawn.source = drawn.target) =>
        \A i \in 1..Len(edges) :
            (/\ edges[i].source = drawn.source
             /\ edges[i].target = drawn.source
             /\ edges[i].id # drawn.id)
                => ArcDirection(CalculateEdgeOffset(edges[i], edges)) # ArcDirection(coords)

\* The self-loop edges of the scene on the node of the drawn edge
LoopsOnDrawn == {i \in 1..Len(edges) : edges[i].source = drawn.source /\ edges[i].target = drawn.source}

\* How many of those come before the drawn edge in id order
LoopsBeforeDrawn == Cardinality({i \in LoopsOnDrawn : Rank(edges[i].id) < Rank(drawn.id)})

LoopDrawn == EdgeDrawn /\ HasNode(drawn.source) /\ drawn.source = drawn.target

\* C11: on a node with exactly 3 self-loop edges the arcs are centred on
\* -60, 0 and +60 degrees in id order, and each arc runs from its centre
\* minus 0.3 rad to its centre plus 0.3 rad.
C11_ThreeLoops ==
    (LoopDrawn /\ Cardinality(LoopsOnDrawn) = 3) =>
        LET centre == (LoopsBeforeDrawn - 1) * 60 IN
        /\ coords.x1.deg = centre /\ coords.y1.deg = centre
        /\ coords.x2.deg = centre /\ coords.y2.deg = centre
        /\ coords.x1.rad = Rat(-3, 10) /\ coords.y1.rad = Rat(-3, 10)
        /\ coords.x2.rad = Rat(3, 10) /\ coords.y2.rad = Rat(3, 10)
        /\ coords.x1.fn = "cos" /\ coords.x2.fn = "cos"
        /\ coords.y1.fn = "sin" /\ coords.y2.fn = "sin"

\* The last of three self-loops on A, not first in the list, was laid out at
\* +60 degrees.
C11_Witness ==
    /\ LoopDrawn /\ drawn.source = "A"
    /\ Cardinality(LoopsOnDrawn) = 3
    /\ LoopsBeforeDrawn = 2
    /\ coords.x1.deg = 60 /\ coords.x1.rad = Rat(-3, 10)

\* How far a segment lies from the line of centres of the drawn edge, measured
\* at the given end along the perpendicular (-dy, dx) / length of the drawn
\* edge's own direction.
DisplacementAt(x, y, node) ==
    LET s == NodeOf(drawn.source).position
        t == NodeOf(drawn.target).position
        dx == FromInt(t.x - s.x)
        dy == FromInt(t.y - s.y)
        length == Sqrt(RAdd(RMul(dx, dx), RMul(dy, dy)))
    IN RDiv(RAdd(RMul(RSub(x.c, FromInt(node.position.x)), RNeg(dy)),
                 RMul(RSub(y.c, FromInt(node.position.y)), dx)),
            length)

\* The displacement of the source end of a segment returned for an edge
Displacement(edge, segment) == DisplacementAt(segment.x1, segment.y1, NodeOf(edge.source))

\* Both ends of the drawn segment are displaced by the same amount.
EndsDisplacedAlike ==
    DisplacementAt(coords.x1, coords.y1, NodeOf(drawn.source))
        = DisplacementAt(coords.x2, coords.y2, NodeOf(drawn.target))

\* The edges of the scene with the direction of the drawn edge, and against it
SameAsDrawn == {i \in 1..Len(edges) : edges[i].source = drawn.source /\ edges[i].target = drawn.target}
AgainstDrawn == {i \in 1..Len(edges) : edges[i].source = drawn.target /\ edges[i].target = drawn.source}
SameBeforeDrawn == Cardinality({i \in SameAsDrawn : Rank(edges[i].id) < Rank(drawn.id)})

\* C12: with no opposite-direction edges, exactly 2 edges sharing
\* (source, target) get the perpendicular offsets -12.5 and +12.5, and
\* exactly 3 get -30, 0 and +30, in id order.
C12_ParallelOffsets ==
    (StraightDrawn /\ AgainstDrawn = {}) =>
        /\ Cardinality(SameAsDrawn) = 2 =>
              /\ Displacement(drawn, coords) = (IF SameBeforeDrawn = 0 THEN Rat(-25, 2) ELSE Rat(25, 2))
              /\ EndsDisplacedAlike
        /\ Cardinality(SameAsDrawn) = 3 =>
              /\ Displacement(drawn, coords) = FromInt((SameBeforeDrawn - 1) * 30)
              /\ EndsDisplacedAlike

\* The first of two parallel edges on a diagonal was laid out 12.5 to one
\* side.
C12_Witness ==
    /\ StraightDrawn /\ AgainstDrawn = {}
    /\ Cardinality(SameAsDrawn) = 2 /\ SameBeforeDrawn = 0
    /\ ~AxisAligned(<<NodeOf(drawn.target).position.x, NodeOf(drawn.target).position.y>>)
    /\ Displacement(drawn, coords) = Rat(-25, 2)

\* C13: for every number n >= 2 of same-direction edges between one pair
\* with no opposite-direction edges, the perpendicular offsets are symmetric
\* about the centreline (for every edge with offset o there is one with
\* offset -o), with step 25 for n = 2 and 30 for n >= 3.
C13_SymmetricSpread ==
    (StraightDrawn /\ AgainstDrawn = {} /\ Cardinality(SameAsDrawn) >= 2) =>
        LET step == IF Cardinality(SameAsDrawn) = 2 THEN 25 ELSE 30
            o == Displacement(drawn, coords)
        IN /\ \E j \in SameAsDrawn :
                Displacement(edges[j], CalculateEdgeOffset(edges[j], edges)) = RNeg(o)
           /\ \A j \in SameAsDrawn :
                Rank(edges[j].id) < Rank(drawn.id) /\
                Cardinality({k \in SameAsDrawn : Rank(edges[j].id) < Rank(edges[k].id)
                                                 /\ Rank(edges[k].id) < Rank(drawn.id)}) = 0
                    => RSub(o, Displacement(edges[j], CalculateEdgeOffset(edges[j], edges)))
                         = FromInt(step)

\* The segment with its two ends exchanged
Reversed(segment) ==
    [x1 |-> segment.x2, y1 |-> segment.y2, x2 |-> segment.x1, y2 |-> segment.y1]

\* C14: when two nodes at different places are joined by edges in both
\* directions, every such edge gets a strictly positive perpendicular offset
\* in the frame of its own direction: 35 when it is the only edge of its
\* direction, its parallel offset plus 35 otherwise. So every segment of one
\* direction lies across the centreline from every segment of the other, and
\* no two segments coincide.
C14_BidirectionalApart ==
    (StraightDrawn /\ AgainstDrawn # {}) =>
        LET o == Displacement(drawn, coords)
            n == Cardinality(SameAsDrawn)
        IN /\ RLess(Zero, o)
           /\ EndsDisplacedAlike
           /\ n = 1 => o = FromInt(35)
           /\ n = 2 => o = RAdd(IF SameBeforeDrawn = 0 THEN Rat(-25, 2) ELSE Rat(25, 2), FromInt(35))
           /\ n = 3 => o = FromInt((SameBeforeDrawn - 1) * 30 + 35)
           /\ \A j \in AgainstDrawn :
                RLess(Displacement(edges[j], CalculateEdgeOffset(edges[j], edges)), Zero)
           /\ \A j \in SameAsDrawn \cup AgainstDrawn :
                edges[j].id # drawn.id =>
                    /\ CalculateEdgeOffset(edges[j], edges) # coords
                    /\ CalculateEdgeOffset(edges[j], edges) # Reversed(coords)

\* The first of two edges from A to B was laid out 22.5 off the centreline
\* while two edges run from B to A.
C14_Witness ==
    /\ StraightDrawn
    /\ Cardinality(AgainstDrawn) = 2
    /\ Cardinality(SameAsDrawn) = 2 /\ SameBeforeDrawn = 0
    /\ Displacement(drawn, coords) = Rat(45, 2)

\* The drawn edge joins two different nodes of the scene, wherever they are,
\* and some edge runs the other way.
JoinedBothWays ==
    /\ EdgeDrawn
    /\ HasNode(drawn.source) /\ HasNode(drawn.target)
    /\ drawn.source # drawn.target
    /\ AgainstDrawn # {}

\* C14 as stated, for every placement of the two nodes: whenever A and B are
\* joined by edges in both directions, no two of the segments coincide and
\* every edge is displaced from the line of centres (which takes two nodes at
\* different places) by a strictly positive offset.
C14_AnyPlacement ==
    JoinedBothWays =>
        /\ \A j \in SameAsDrawn \cup AgainstDrawn :
                edges[j].id # drawn.id =>
                    /\ CalculateEdgeOffset(edges[j], edges) # coords
                    /\ CalculateEdgeOffset(edges[j], edges) # Reversed(coords)
        /\ StraightDrawn
        /\ RLess(Zero, Displacement(drawn, coords))

\* The list with the elements at i and i + 1 exchanged
SwapAdjacent(list, i) ==
    [k \in 1..Len(list) |-> IF k = i THEN list[i + 1] ELSE IF k = i + 1 THEN list[i] ELSE list[k]]

\* Rearrangements of a list: the reversal, the rotation by one place and every
\* exchange of two neighbours.
Rearrangements(list) ==
    {[k \in 1..Len(list) |-> list[Len(list) + 1 - k]],
     [k \in 1..Len(list) |-> list[(k % Len(list)) + 1]]}
    \cup {SwapAdjacent(list, i) : i \in 1..(Len(list) - 1)}

\* C15: slots are assigned by id order only: calculateEdgeOffset(edge,
\* allEdges) returns the same coordinates for the rearrangements of the
\* allEdges list, for parallel offsets as for self-loop angles, and the call
\* leaves the list itself in the order it had (here: ids falling).
C15_IdOrderOnly ==
    EdgeDrawn =>
        /\ \A p \in Rearrangements(edges) : CalculateEdgeOffset(drawn, p) = coords
        /\ \A i \in 1..Len(edges) : edges[i].id = EdgeIds[Len(edges) + 1 - i]

\* An edge with a non-zero slot, among three parallel edges or three loops
\* listed against id order, was laid out, and a rearranged list exists.
C15_Witness ==
    /\ EdgeDrawn
    /\ Len(edges) >= 3
    /\ Rank(edges[1].id) > Rank(edges[2].id)
    /\ \/ StraightDrawn /\ Cardinality(SameAsDrawn) = 3 /\ Displacement(drawn, coords) = FromInt(30)
       \/ LoopDrawn /\ Cardinality(LoopsOnDrawn) = 3 /\ coords.x1.deg = -60
    /\ \E p \in Rearrangements(edges) : p # edges

-----------------------------------------------------------------------------
(* SimpleApp: edge types and getEdgeColor *)

\* An edge type string is modelled as the sequence of the pieces it is
\* written with: <<"PV", "-suff">> is 'PV-suff'. Only the two qualifier pieces
\* hold a '-', so '-suff' or '-nec' occurs in the string exactly where such a
\* piece stands, and includes() and replace() act on whole pieces.
MaxPieces == 3
KindPieces == {"PV", "VP", "PP", "VV", "sequence", "feedback", "loop", "exit", "entry"}
Pieces == KindPieces \cup {"resultant", "-suff", "-nec"}
TypeStrings == UNION {[1..n -> Pieces] : n \in 0..MaxPieces}

\* str.includes(piece)
Includes(str, piece) == \E i \in 1..Len(str) : str[i] = piece

\* str.replace(piece, ''): the first occurrence is taken out.
RemoveFirst(str, piece) ==
    IF ~Includes(str, piece) THEN str
    ELSE LET i == CHOOSE k \in 1..Len(str) : str[k] = piece /\ \A j \in 1..(k - 1) : str[j] # piece
         IN SubSeq(str, 1, i - 1) \o SubSeq(str, i + 1, Len(str))

GetBaseEdgeType(edgeType) == RemoveFirst(RemoveFirst(edgeType, "-suff"), "-nec")

GetEdgeQualifier(edgeType) ==
    IF Includes(edgeType, "-suff") THEN "suff"
    ELSE IF Includes(edgeType, "-nec") THEN "nec"
    ELSE "null"

\* The switch over baseType
BaseColor(baseType) ==
    CASE baseType = <<"PV">> -> "#4CAF50"
      [] baseType = <<"VP">> -> "#FF9800"
      [] baseType = <<"PP">> -> "#9C27B0"
      [] baseType = <<"VV">> -> "#F44336"
      [] baseType = <<"sequence">> -> "#2196F3"
      [] baseType = <<"feedback">> -> "#FF5722"
      [] baseType = <<"loop">> -> "#607D8B"
      [] baseType = <<"exit">> -> "#8BC34A"
      [] baseType = <<"entry">> -> "#4CAF50"
      [] OTHER -> "#666"

\* color.replace(from, to) on a colour of the table: no colour holds another
\* as a part, so the pattern occurs only when the colour is the pattern.
ReplaceColor(color, from, to) == IF color = from THEN to ELSE color

Darker(color) ==
    ReplaceColor(ReplaceColor(ReplaceColor(ReplaceColor(color,
        "#4CAF50", "#2E7D32"), "#FF9800", "#E65100"), "#9C27B0", "#6A1B9A"), "#F44336", "#C62828")

Lighter(color) ==
    ReplaceColor(ReplaceColor(ReplaceColor(ReplaceColor(color,
        "#4CAF50", "#81C784"), "#FF9800", "#FFB74D"), "#9C27B0", "#BA68C8"), "#F44336", "#E57373")

\* The values isResultant is passed as: edge.isResultant is optional, and an
\* undefined argument takes the default false.
ResultantFlags == {Bool("true"), Bool("false"), Undefined}
DefaultFalse(isResultant) == IF isResultant = Undefined THEN Bool("false") ELSE isResultant

\* A variant that looks at the resultant flag before the qualifier.
GetEdgeColorResultantFirst(type, isResultant) ==
    LET baseColor == BaseColor(GetBaseEdgeType(type))
        qualifier == GetEdgeQualifier(type)
    IN IF Truthy(DefaultFalse(isResultant)) THEN Lighter(baseColor)
       ELSE IF qualifier = "nec" THEN Darker(baseColor)
       ELSE baseColor

\* getEdgeColor(type, isResultant = false)
GetEdgeColor(type, isResultant) ==
    LET baseColor == BaseColor(GetBaseEdgeType(type))
        qualifier == GetEdgeQualifier(type)
    IN IF qualifier = "suff" THEN baseColor
       ELSE IF qualifier = "nec" THEN Darker(baseColor)
       ELSE IF Truthy(DefaultFalse(isResultant)) THEN Lighter(baseColor)
       ELSE baseColor

\* The calls a render makes: one per edge, with its type and its flag.
EdgeColorCalls ==
    {[fn |-> "getEdgeColor", type |-> type, isResultant |-> isResultant] :
        type \in TypeStrings, isResultant \in ResultantFlags}

\* The edge asked about is painted: getEdgeColor parses the type and picks
\* the colour.
EdgeColorAsked ==
    /\ asked.fn = "getEdgeColor"
    /\ answered' = [fn |-> "getEdgeColor",
                    baseType |-> GetBaseEdgeType(asked.type),
                    qualifier |-> GetEdgeQualifier(asked.type),
                    color |-> GetEdgeColor(asked.type, asked.isResultant)]
    /\ UNCHANGED asked
    /\ UNCHANGED uiVars
    /\ UNCHANGED importVars
    /\ UNCHANGED geomVars

-----------------------------------------------------------------------------
(* getNodeColors of App-simple.tsx and of utils/nodeUtils.ts *)

\* The defaultColors table of each resolver
DefaultColorsApp ==
    [vocabulary |-> [background |-> "#E3F2FD", border |-> "#1976D2"],
     practice |-> [background |-> "#FFF3E0", border |-> "#F57C00"],
     test |-> [background |-> "#E8F5E8", border |-> "#4CAF50"],
     operate |-> [background |-> "#FFF8E1", border |-> "#FFC107"]]

DefaultColorsUtils ==
    [vocabulary |-> [background |-> "#E3F2FD", border |-> "#1976D2"],
     practice |-> [background |-> "#FFF3E0", border |-> "#F57C00"],
     test |-> [background |-> "#E8F5E8", border |-> "#4CAF50"],
     operate |-> [background |-> "#FFF8E1", border |-> "#FFC107"],
     exit |-> [background |-> "#FFEBEE", border |-> "#F44336"]]

Resolvers == {"App-simple", "nodeUtils"}
DefaultColors(resolver) == IF resolver = "App-simple" THEN DefaultColorsApp ELSE DefaultColorsUtils

\* Keys every object literal inherits from Object.prototype: looking one up
\* gives a function, whose background and border are undefined.
InheritedKeys == {"constructor"}

\* node.style: absent, or an object whose colours are absent, empty or set
NoStyle == [t |-> "undefined"]
StyleColors == {Undefined, Str(""), Str("#123456")}
Styles ==
    {NoStyle} \cup {[t |-> "object", backgroundColor |-> b, borderColor |-> c] :
                        b \in StyleColors, c \in StyleColors}

ColourNodeTypes == {"vocabulary", "practice", "test", "operate", "exit", "decision", "constructor"}
ColourNodes == {[type |-> ty, style |-> st] : ty \in ColourNodeTypes, st \in Styles}

\* node.style?.backgroundColor and node.style?.borderColor
StyleColor(node, key) ==
    IF node.style = NoStyle THEN Undefined
    ELSE IF key = "background" THEN node.style.backgroundColor ELSE node.style.borderColor

\* node.style?.<key>Color || defaults.<key>: the right side is read only when
\* the left is falsy, and reading a property of undefined throws.
ColourOrDefault(resolver, node, key) ==
    IF Truthy(StyleColor(node, key)) THEN [threw |-> "none", value |-> StyleColor(node, key)]
    ELSE IF node.type \in DOMAIN DefaultColors(resolver)
    THEN [threw |-> "none", value |-> Str(DefaultColors(resolver)[node.type][key])]
    ELSE IF node.type \in InheritedKeys THEN [threw |-> "none", value |-> Undefined]
    ELSE [threw |-> "TypeError", value |-> Undefined]

\* getNodeColors(node): background is evaluated first, then border.
GetNodeColors(resolver, node) ==
    LET background == ColourOrDefault(resolver, node, "background")
        border == ColourOrDefault(resolver, node, "border")
    IN IF background.threw # "none" \/ border.threw # "none"
       THEN [fn |-> "getNodeColors", threw |-> "TypeError",
             background |-> Undefined, border |-> Undefined]
       ELSE [fn |-> "getNodeColors", threw |-> "none",
             background |-> background.value, border |-> border.value]

NodeColorCalls ==
    {[fn |-> "getNodeColors", resolver |-> resolver, node |-> node] :
        resolver \in Resolvers, node \in ColourNodes}

\* The node asked about is painted by one of the two resolvers.
NodeColorsAsked ==
    /\ asked.fn = "getNodeColors"
    /\ answered' = GetNodeColors(asked.resolver, asked.node)
    /\ UNCHANGED asked
    /\ UNCHANGED uiVars
    /\ UNCHANGED importVars
    /\ UNCHANGED geomVars

InitStyle ==
    /\ ImportIdle
    /\ GeomIdle
    /\ asked \in EdgeColorCalls \cup NodeColorCalls
    /\ answered = NoCall
    /\ UiIdle

NextStyle ==
    \/ EdgeColorAsked
    \/ NodeColorsAsked

SpecStyle == InitStyle /\ [][NextStyle]_vars

-----------------------------------------------------------------------------
(* Properties of the colour resolvers *)

EdgeColorAnswered == answered.fn = "getEdgeColor"
NodeColorsAnswered == answered.fn = "getNodeColors"

MudKinds == {"PV", "VP", "PP", "VV"}
ToteKinds == {"sequence", "feedback", "loop", "exit", "entry"}
BaseShade ==
    [PV |-> "#4CAF50", VP |-> "#FF9800", PP |-> "#9C27B0", VV |-> "#F44336",
     sequence |-> "#2196F3", feedback |-> "#FF5722", loop |-> "#607D8B",
     exit |-> "#8BC34A", entry |-> "#4CAF50"]
LighterShade == [PV |-> "#81C784", VP |-> "#FFB74D", PP |-> "#BA68C8", VV |-> "#E57373"]
DarkerShade == [PV |-> "#2E7D32", VP |-> "#E65100", PP |-> "#6A1B9A", VV |-> "#C62828"]

\* C16: for every edge of base kind PV, VP, PP or VV that is unqualified or
\* qualified '-suff', getEdgeColor(type, true) returns the lighter shade of
\* the base colour; getEdgeColor('PV-suff', true) is the lighter green.
C16_ResultantLighter ==
    (EdgeColorAnswered /\ asked.isResultant = Bool("true")) =>
        \A K \in MudKinds :
            asked.type \in {<<K>>, <<K, "-suff">>} => answered.color = LighterShade[K]

C18_TotalAndBaseShade ==
    EdgeColorAnswered =>
        /\ answered.color \in {BaseShade[K] : K \in DOMAIN BaseShade}
                \cup {LighterShade[K] : K \in MudKinds}
                \cup {DarkerShade[K] : K \in MudKinds} \cup {"#666"}
        /\ (\A K \in MudKinds \cup ToteKinds : answered.baseType # <<K>>)
                => answered.color = "#666"
        /\ \A K \in ToteKinds :
                asked.type \in {<<K>>, <<K, "-suff">>, <<K, "-nec">>}
                    => answered.color = BaseShade[K]

\* The type string ends with the piece
EndsWith(str, piece) == Len(str) > 0 /\ str[Len(str)] = piece

\* C19: parsing an edge type is lossless and total: getEdgeQualifier(t) is
\* 'suff' (resp. 'nec') exactly when t ends with '-suff' (resp. '-nec') and
\* null otherwise, and getBaseEdgeType(t) followed by '-' and the qualifier,
\* when there is one, is t again.
C19_ParseLossless ==
    EdgeColorAnswered =>
        /\ answered.qualifier = "suff" <=> EndsWith(asked.type, "-suff")
        /\ answered.qualifier = "nec" <=> EndsWith(asked.type, "-nec")
        /\ answered.qualifier \in {"suff", "nec", "null"}
        /\ answered.baseType \o (CASE answered.qualifier = "suff" -> <<"-suff">>
                                    [] answered.qualifier = "nec" -> <<"-nec">>
                                    [] OTHER -> <<>>)
                = asked.type

\* C20: for a node without style overrides whose type is not in the
\* default-colour table of the resolver (an unrecognised string, and 'exit'
\* for the resolver of App-simple), getNodeColors returns a
\* {background, border} pair of colours instead of throwing.
C20_NodeColorsDegrade ==
    (/\ NodeColorsAnswered
     /\ asked.node.style = NoStyle
     /\ \/ asked.node.type \notin {"vocabulary", "practice", "test", "operate", "exit"}
        \/ asked.node.type = "exit" /\ asked.resolver = "App-simple")
        => /\ answered.threw = "none"
           /\ answered.background.t = "string"
           /\ answered.border.t = "string"

-----------------------------------------------------------------------------
(* utils/nodeUtils.ts: isLaTeXContent and escapeLaTeXText *)

\* A label is the sequence of its characters; "a" stands for any letter. The
\* texts the escaping writes hold one more kind of element: the name of a
\* LaTeX command, a run of letters written as one element.
MaxLabel == 3
LabelChars == {"a", " ", "\\", "&", "%", "$", "#", "_", "{", "}", "^", "~"}
Labels == UNION {[1..n -> LabelChars] : n \in 0..MaxLabel}

\* The characters \w matches
WordChars == {"a", "_"}

\* The patterns of isLaTeXContent, in the order of the list. The last four
\* (\frac{, \mathbb{, \mathcal{, \text{) match only where the first matches.
MatchesCommand(text) ==
    \E i \in 1..(Len(text) - 1) : text[i] = "\\" /\ text[i + 1] \in WordChars
MatchesMathMode(text) ==
    \E i \in 1..Len(text) : \E j \in (i + 1)..Len(text) : text[i] = "$" /\ text[j] = "$"
MatchesEscapedBrace(text) ==
    \E i \in 1..(Len(text) - 1) : text[i] = "\\" /\ text[i + 1] \in {"{", "}"}
MatchesScript(text) ==
    \E i \in 1..Len(text) : text[i] \in {"_", "^"}

\* A variant without the pattern for subscripts and superscripts.
IsLaTeXContentNoScript(text) ==
    MatchesCommand(text) \/ MatchesMathMode(text) \/ MatchesEscapedBrace(text)

\* latexPatterns.some(pattern => pattern.test(text))
IsLaTeXContent(text) ==
    MatchesCommand(text) \/ MatchesMathMode(text) \/ MatchesEscapedBrace(text)
        \/ MatchesScript(text)

\* text.replace(/[...]/g, ...): every element of `from` is replaced by what
\* `by` gives for it, in one pass from left to right.
RECURSIVE ReplaceAll(_, _, _)
ReplaceAll(text, from, by) ==
    IF text = <<>> THEN <<>>
    ELSE (IF Head(text) \in from THEN by[Head(text)] ELSE <<Head(text)>>)
            \o ReplaceAll(Tail(text), from, by)

\* '\\$1' and '\\$&': the character with a backslash before it
Backslashed == [c \in LabelChars |-> <<"\\", c>>]
TextBackslash == [c \in LabelChars |-> <<"\\", "textbackslash", "{", "}">>]
TextAsciiCircum == [c \in LabelChars |-> <<"\\", "textasciicircum", "{", "}">>]
TextAsciiTilde == [c \in LabelChars |-> <<"\\", "textasciitilde", "{", "}">>]

EscapeLaTeXText(text) ==
    IF IsLaTeXContent(text)
    THEN ReplaceAll(text, {"&", "%"}, Backslashed)
    ELSE ReplaceAll(
            ReplaceAll(
                ReplaceAll(
                    ReplaceAll(text, {"\\"}, TextBackslash),
                    {"&", "%", "$", "#", "_", "{", "}"}, Backslashed),
                {"^"}, TextAsciiCircum),
            {"~"}, TextAsciiTilde)

-----------------------------------------------------------------------------
(* utils/nodeUtils.ts: the colours exportAsSVG writes *)

\* getEdgeColorSVG(edge.type): a switch over the whole type string
GetEdgeColorSVG(edgeType) ==
    CASE edgeType = <<"PV">> -> "#4CAF50"
      [] edgeType = <<"VP">> -> "#FF9800"
      [] edgeType = <<"PP">> -> "#9C27B0"
      [] edgeType = <<"VV">> -> "#F44336"
      [] edgeType = <<"sequence">> -> "#2196F3"
      [] edgeType = <<"feedback">> -> "#FF5722"
      [] edgeType = <<"loop">> -> "#607D8B"
      [] edgeType = <<"exit">> -> "#8BC34A"
      [] edgeType = <<"entry">> -> "#4CAF50"
      [] OTHER -> "#666"

GetNodeFillColor(node) ==
    IF Truthy(StyleColor(node, "background")) THEN StyleColor(node, "background")
    ELSE CASE node.type = "vocabulary" -> Str("#E3F2FD")
           [] node.type = "practice" -> Str("#FFF3E0")
           [] node.type = "test" -> Str("#E8F5E8")
           [] node.type = "operate" -> Str("#FFF8E1")
           [] OTHER -> Str("#FAFAFA")

GetNodeStrokeColor(node) ==
    IF Truthy(StyleColor(node, "border")) THEN StyleColor(node, "border")
    ELSE CASE node.type = "vocabulary" -> Str("#1976D2")
           [] node.type = "practice" -> Str("#F57C00")
           [] node.type = "test" -> Str("#4CAF50")
           [] node.type = "operate" -> Str("#FFC107")
           [] OTHER -> Str("#666")

\* The shape element exportAsSVG writes for a node; none for other types.
SvgShape(node) ==
    CASE node.type = "vocabulary" -> "ellipse"
      [] node.type \in {"practice", "operate"} -> "rect"
      [] node.type = "test" -> "path"
      [] OTHER -> "none"

\* What exportAsSVG writes for one edge whose two nodes exist
SvgEdge(edge) ==
    [fn |-> "exportAsSVG", element |-> "line",
     stroke |-> GetEdgeColorSVG(edge.type),
     dasharray |-> IF Truthy(edge.isResultant) THEN "5,5" ELSE "none"]

\* What exportAsSVG writes for one node
SvgNode(node) ==
    [fn |-> "exportAsSVG", element |-> SvgShape(node),
     fill |-> GetNodeFillColor(node), stroke |-> GetNodeStrokeColor(node)]

-----------------------------------------------------------------------------
(* generateTikZCode of App-simple.tsx and of utils/nodeUtils.ts *)

\* A TikZ picture is modelled as its commands: the \node commands and the
\* \draw commands, each with the texts that were put into it.

ExportNode(id, type, x, y, label) ==
    [id |-> id, type |-> type, position |-> [x |-> x, y |-> y], label |-> label]

ExportEdge(id, source, target, type, isResultant) ==
    [id |-> id, source |-> source, target |-> target, type |-> type,
     isResultant |-> isResultant]

\* node.label.replace(/[{}]/g, '\\$&').replace(/[_^]/g, '\\$&')
AppEscapeLabel(label) ==
    ReplaceAll(ReplaceAll(label, {"{", "}"}, Backslashed), {"_", "^"}, Backslashed)

\* styleMap of App-simple.tsx
AppStyleMap ==
    [PV |-> "pv", VP |-> "vp", PP |-> "pp", VV |-> "vv", resultant |-> "resultant",
     sequence |-> "sequence", feedback |-> "feedback", loop |-> "loop", exit |-> "exit"]

\* styleMap[edge.type] || 'pv': a key is one piece, so only a type of one
\* piece can be a key.
AppEdgeStyle(type) ==
    IF Len(type) = 1 /\ type[1] \in DOMAIN AppStyleMap THEN AppStyleMap[type[1]] ELSE "pv"

\* (x * 0.02).toFixed(2) and (-(y - 300) * 0.02).toFixed(2), as the number the
\* text stands for; exact for the whole-number positions used.
ConvertX(x) == Rat(x, 50)
ConvertY(y) == Rat(-(y - 300), 50)

AppTikZNode(node) ==
    [style |-> node.type, name |-> node.id,
     at |-> <<ConvertX(node.position.x), ConvertY(node.position.y)>>,
     label |-> AppEscapeLabel(node.label)]

\* Every edge is drawn; ${edge.source} writes a null as the text null.
AppTikZDraw(edge) ==
    [style |-> AppEdgeStyle(edge.type), source |-> edge.source, target |-> edge.target,
     label |-> edge.type]

AppGenerateTikZCode(ns, es) ==
    [fn |-> "generateTikZCode",
     nodes |-> [i \in 1..Len(ns) |-> AppTikZNode(ns[i])],
     draws |-> [i \in 1..Len(es) |-> AppTikZDraw(es[i])]]

\* The switch over node.type of nodeUtils.ts
UtilsNodeStyle(type) ==
    CASE type = "vocabulary" ->
            "ellipse, fill=blue!20, draw=blue!80, minimum width=120pt, minimum height=80pt"
      [] type = "practice" ->
            "rectangle, rounded corners=10pt, fill=orange!20, draw=orange!80, minimum width=120pt, minimum height=60pt"
      [] type = "test" ->
            "diamond, fill=green!20, draw=green!80, minimum width=100pt, minimum height=80pt"
      [] type = "operate" ->
            "rectangle, fill=yellow!20, draw=yellow!80, minimum width=100pt, minimum height=50pt"
      [] OTHER -> ""

\* The switch over edge.type of nodeUtils.ts
UtilsEdgeColour(type) ==
    CASE type = <<"PV">> -> "green, thick"
      [] type = <<"VP">> -> "orange, thick"
      [] type = <<"PP">> -> "purple, thick"
      [] type = <<"VV">> -> "red, thick"
      [] type = <<"sequence">> -> "blue, thick"
      [] type = <<"feedback">> -> "red!70, thick"
      [] type = <<"loop">> -> "gray, thick"
      [] OTHER -> "black"

UtilsEdgeOptions(edge) ==
    (IF Truthy(edge.isResultant) THEN "dashed, " ELSE "") \o UtilsEdgeColour(edge.type)

UtilsTikZNode(node) ==
    [style |-> UtilsNodeStyle(node.type), name |-> node.id,
     at |-> <<FromInt(node.position.x), FromInt(-node.position.y)>>,
     label |-> EscapeLaTeXText(node.label)]

\* The label is edge.label || edge.type, escaped; the edges here carry no
\* label, and a type string is letters and '-', which escapeLaTeXText leaves
\* as they are.
UtilsTikZDraw(edge) ==
    [style |-> UtilsEdgeOptions(edge), source |-> edge.source, target |-> edge.target,
     label |-> edge.type]

\* An edge is skipped when one of its two nodes is not found.
UtilsGenerateTikZCode(ns, es) ==
    LET found(id) == \E k \in 1..Len(ns) : ns[k].id = id
        kept == FilterFrom(es, {i \in 1..Len(es) : found(es[i].source) /\ found(es[i].target)}, 1)
    IN [fn |-> "generateTikZCode",
        nodes |-> [i \in 1..Len(ns) |-> UtilsTikZNode(ns[i])],
        draws |-> [i \in 1..Len(kept) |-> UtilsTikZDraw(kept[i])]]

GenerateTikZCode(resolver, ns, es) ==
    IF resolver = "App-simple" THEN AppGenerateTikZCode(ns, es)
    ELSE UtilsGenerateTikZCode(ns, es)

-----------------------------------------------------------------------------
(* The exporters, one call at a time *)

MaxExportPieces == 2

ExportTypes == UNION {[1..n -> Pieces] : n \in 0..MaxExportPieces}

ExportFlags == {Bool("true"), Undefined}

SvgEdgeCalls ==
    {[fn |-> "exportAsSVG", part |-> "edge",
      edge |-> ExportEdge("e1", "A", "B", type, isResultant)] :
        type \in ExportTypes, isResultant \in ExportFlags}

SvgNodeCalls ==
    {[fn |-> "exportAsSVG", part |-> "node", node |-> node] : node \in ColourNodes}

EscapeCalls == {[fn |-> "escapeLaTeXText", text |-> text] : text \in Labels}

\* Two nodes on the canvas; G names a node that is no longer there.
TikZNodes ==
    <<ExportNode("A", "practice", 100, 100, <<"a">>),
      ExportNode("B", "vocabulary", 300, 200, <<"a", "_", "{">>)>>

\* The ends an edge can have: two nodes, the ends addNode gives an entry and
\* an exit edge, and a node that is gone.
EdgeEnds ==
    {<<"A", "B">>, <<"B", "A">>, <<NullId, "standalone">>, <<"standalone", NullId>>,
     <<"A", "G">>}

TikZEdges ==
    {ExportEdge("e2", ends[1], ends[2], type, isResultant) :
        ends \in EdgeEnds, type \in ExportTypes, isResultant \in ExportFlags}

TikZCalls ==
    {[fn |-> "generateTikZCode", resolver |-> resolver, nodes |-> TikZNodes, edges |-> es] :
        resolver \in Resolvers,
        es \in {<<e>> : e \in TikZEdges}
               \cup {<<ExportEdge("e1", "A", "B", <<"PV">>, Undefined), e>> : e \in TikZEdges}}

SvgEdgeExported ==
    /\ asked.fn = "exportAsSVG"
    /\ asked.part = "edge"
    /\ answered' = SvgEdge(asked.edge)
    /\ UNCHANGED asked
    /\ UNCHANGED uiVars
    /\ UNCHANGED importVars
    /\ UNCHANGED geomVars

SvgNodeExported ==
    /\ asked.fn = "exportAsSVG"
    /\ asked.part = "node"
    /\ answered' = SvgNode(asked.node)
    /\ UNCHANGED asked
    /\ UNCHANGED uiVars
    /\ UNCHANGED importVars
    /\ UNCHANGED geomVars

LabelEscaped ==
    /\ asked.fn = "escapeLaTeXText"
    /\ answered' = [fn |-> "escapeLaTeXText",
                    markup |-> IsLaTeXContent(asked.text),
                    text |-> EscapeLaTeXText(asked.text)]
    /\ UNCHANGED asked
    /\ UNCHANGED uiVars
    /\ UNCHANGED importVars
    /\ UNCHANGED geomVars

TikZGenerated ==
    /\ asked.fn = "generateTikZCode"
    /\ answered' = GenerateTikZCode(asked.resolver, asked.nodes, asked.edges)
    /\ UNCHANGED asked
    /\ UNCHANGED uiVars
    /\ UNCHANGED importVars
    /\ UNCHANGED geomVars

InitExport ==
    /\ ImportIdle
    /\ GeomIdle
    /\ asked \in SvgEdgeCalls \cup SvgNodeCalls \cup EscapeCalls \cup TikZCalls
    /\ answered = NoCall
    /\ UiIdle

NextExport ==
    \/ SvgEdgeExported
    \/ SvgNodeExported
    \/ LabelEscaped
    \/ TikZGenerated

SpecExport == InitExport /\ [][NextExport]_vars

-----------------------------------------------------------------------------
(* Properties of the exporters *)

SvgEdgeAnswered == answered.fn = "exportAsSVG" /\ asked.part = "edge"

SvgNodeAnswered == answered.fn = "exportAsSVG" /\ asked.part = "node"

\* C21: the stroke colour exportAsSVG writes for an edge is
\* getEdgeColor(type, isResultant), and the fill and stroke it writes for a
\* node are the background and border of getNodeColors(node), for qualified
\* types, resultant edges and nodes of type 'exit' as well.
C21_SvgColoursAreResolved ==
    /\ SvgEdgeAnswered =>
          answered.stroke = GetEdgeColor(asked.edge.type, asked.edge.isResultant)
    /\ SvgNodeAnswered =>
          /\ answered.element # "none"
          /\ \E resolver \in Resolvers :
                /\ GetNodeColors(resolver, asked.node).threw = "none"
                /\ answered.fill = GetNodeColors(resolver, asked.node).background
                /\ answered.stroke = GetNodeColors(resolver, asked.node).border

LabelEscapedAnswered == answered.fn = "escapeLaTeXText"

\* The literal-text equivalent of one character
LiteralText ==
    [c \in LabelChars |->
        CASE c = "\\" -> <<"\\", "textbackslash", "{", "}">>
          [] c = "~" -> <<"\\", "textasciitilde", "{", "}">>
          [] c = "^" -> <<"\\", "textasciicircum", "{", "}">>
          [] c \in {"&", "%", "$", "#", "_", "{", "}"} -> <<"\\", c>>
          [] OTHER -> <<c>>]

Literally(text) == ReplaceAll(text, LabelChars, LiteralText)

\* C22: for a label that is not classified as markup, the result is the
\* label with each backslash replaced by \textbackslash{}, each tilde by
\* \textasciitilde{}, each of & % $ # { } preceded by one backslash, and
\* nothing else changed.
C22_PlainTextEscapedLiterally ==
    (LabelEscapedAnswered /\ ~answered.markup) => answered.text = Literally(asked.text)

HasChar(text, chars) == \E i \in 1..Len(text) : text[i] \in chars

\* C23 as stated: a label with an underscore, a caret or a backslash is
\* classified as markup, and only its & and % are escaped.
C23_AnyBackslashIsMarkup ==
    (LabelEscapedAnswered /\ HasChar(asked.text, {"_", "^", "\\"})) =>
        /\ answered.markup
        /\ answered.text = ReplaceAll(asked.text, {"&", "%"}, Backslashed)

\* A backslash directly followed by a word character or a brace
CommandLike(text) ==
    \E i \in 1..(Len(text) - 1) :
        text[i] = "\\" /\ text[i + 1] \in WordChars \cup {"{", "}"}

\* C23: a label with an underscore, a caret, or a backslash directly followed
\* by a word character or a brace is classified as markup, and only its & and
\* % are escaped, each by one backslash put before it.
C23_ScriptOrCommandIsMarkup ==
    (LabelEscapedAnswered /\ (HasChar(asked.text, {"_", "^"}) \/ CommandLike(asked.text))) =>
        /\ answered.markup
        /\ answered.text = ReplaceAll(asked.text, {"&", "%"}, Backslashed)

C23_Witness ==
    /\ LabelEscapedAnswered
    /\ asked.text = <<"a", "_", "&">>
    /\ answered.markup
    /\ answered.text = <<"a", "_", "\\", "&">>

TikZAnswered == answered.fn = "generateTikZCode"

\* The last edge handed to the generator has both its nodes, so that the
\* last \draw command is the one written for it.
LastEdge == asked.edges[Len(asked.edges)]
LastEdgeJoinsNodes ==
    /\ TikZAnswered
    /\ \E i \in 1..Len(asked.nodes) : asked.nodes[i].id = LastEdge.source
    /\ \E i \in 1..Len(asked.nodes) : asked.nodes[i].id = LastEdge.target
    /\ answered.draws # <<>>
LastDraw == answered.draws[Len(answered.draws)]

\* The draw style the generator gives an edge of this type between A and B
DrawStyle(resolver, type, isResultant) ==
    GenerateTikZCode(resolver, TikZNodes,
                     <<ExportEdge("e2", "A", "B", type, isResultant)>>).draws[1].style

\* C24: an edge of type K-suff or K-nec (K one of PV, VP, PP, VV) is drawn in
\* the style of an edge of kind K, and each TOTE kind is drawn in a style no
\* other kind has.
C24_StyledPerRelationKind ==
    LastEdgeJoinsNodes =>
        /\ \A K \in MudKinds : \A q \in {"-suff", "-nec"} :
              LastEdge.type = <<K, q>> =>
                  LastDraw.style = DrawStyle(asked.resolver, <<K>>, LastEdge.isResultant)
        /\ \A k \in ToteKinds :
              LastEdge.type = <<k>> =>
                  \A other \in (MudKinds \cup ToteKinds) \ {k} :
                      LastDraw.style # DrawStyle(asked.resolver, <<other>>, LastEdge.isResultant)

\* The node names declared by the \node commands of the document
DeclaredNames == {answered.nodes[i].name : i \in 1..Len(answered.nodes)}

\* C28: every \draw command of a generated document names only nodes that a
\* \node command of the same document declares.
C28_DrawsNameDeclaredNodes ==
    TikZAnswered =>
        \A i \in 1..Len(answered.draws) :
            /\ answered.draws[i].source \in DeclaredNames
            /\ answered.draws[i].target \in DeclaredNames

-----------------------------------------------------------------------------
(* SimpleApp: the toolbar, the canvas clicks and the Delete key *)

\* The most nodes and the most edges the canvas gets, and the last clock value.
MaxAppNodes == 2
MaxAppEdges == 2
MaxAppClock == 4

DiagramModes == {"MUD", "TOTE", "HYBRID"}

GetAvailableTools(mode) ==
    CASE mode = "MUD" -> <<"select", "vocabulary", "practice", "edge">>
      [] mode = "TOTE" -> <<"select", "test", "operate", "edge", "entry", "exit">>
      [] mode = "HYBRID" ->
            <<"select", "vocabulary", "practice", "test", "operate", "edge", "entry", "exit">>

Offered(mode) == {GetAvailableTools(mode)[i] : i \in 1..Len(GetAvailableTools(mode))}

\* Date.now() read by a handler that makes a node or an edge: clicks are at
\* least a millisecond apart, so every reading is later than the one before.
ClockReadings == {t \in {now + 1} : t <= MaxAppClock}

NodeIds == {nodes[i].id : i \in 1..Len(nodes)}
AppEdgeIds == {edges[i].id : i \in 1..Len(edges)}

\* list.filter(keep), for the positions that are kept
Kept(list, positions) == FilterFrom(list, positions, 1)

\* The edge type selector is a fixed overlay over the whole window: while it
\* is shown no click reaches the toolbar or the canvas.
SelectorClosed == pendingEdge = NoPending

\* A variant that leaves the tool as it is.
HandleModeChangeKeepTool(newMode) ==
    /\ SelectorClosed
    /\ diagramMode' = newMode
    /\ selectedNodes' = <<>>
    /\ UNCHANGED <<selectedTool, selectedEdges, autoDetectEdges, pendingEdge, selectedItems>>
    /\ UNCHANGED <<nodes, edges, now>>
    /\ UNCHANGED <<currentDiagram, file, fileOrigin, outcome, alertMessage, drawn, coords>>
    /\ UNCHANGED styleVars

HandleModeChange(newMode) ==
    /\ SelectorClosed
    /\ diagramMode' = newMode
    /\ selectedTool' = "select"
    /\ selectedNodes' = <<>>
    /\ UNCHANGED <<selectedEdges, autoDetectEdges, pendingEdge, selectedItems>>
    /\ UNCHANGED <<nodes, edges, now>>
    /\ UNCHANGED <<currentDiagram, file, fileOrigin, outcome, alertMessage, drawn, coords>>
    /\ UNCHANGED styleVars

\* A click on a toolbar button; the toolbar shows getAvailableTools(diagramMode).
ToolbarClick(tool) ==
    /\ SelectorClosed
    /\ tool \in Offered(diagramMode)
    /\ selectedTool' = tool
    /\ selectedNodes' = <<>>
    /\ UNCHANGED <<selectedEdges, diagramMode, autoDetectEdges, pendingEdge, selectedItems>>
    /\ UNCHANGED <<nodes, edges, now>>
    /\ UNCHANGED <<currentDiagram, file, fileOrigin, outcome, alertMessage, drawn, coords>>
    /\ UNCHANGED styleVars

\* The checkbox is shown in MUD mode only.
SetAutoDetectEdges(checked) ==
    /\ SelectorClosed
    /\ diagramMode = "MUD"
    /\ autoDetectEdges' = checked
    /\ UNCHANGED <<selectedTool, selectedNodes, selectedEdges, diagramMode, pendingEdge,
                   selectedItems>>
    /\ UNCHANGED <<nodes, edges, now>>
    /\ UNCHANGED <<currentDiagram, file, fileOrigin, outcome, alertMessage, drawn, coords>>
    /\ UNCHANGED styleVars

\* addNode(x, y): nothing for the select and edge tools, an edge with one
\* end null for the entry and exit tools, a node of the tool's type otherwise.
AddNode ==
    IF selectedTool \in {"select", "edge"}
    THEN UNCHANGED <<nodes, edges, now>>
    ELSE IF selectedTool \in {"entry", "exit"}
    THEN /\ Len(edges) < MaxAppEdges
         /\ \E t \in ClockReadings :
               /\ now' = t
               /\ edges' = Append(edges,
                      SimpleEdge(ToString(t),
                                 IF selectedTool = "entry" THEN NullId ELSE "standalone",
                                 IF selectedTool = "exit" THEN NullId ELSE "standalone",
                                 <<selectedTool>>))
         /\ UNCHANGED nodes
    ELSE /\ Len(nodes) < MaxAppNodes
         /\ \E t \in ClockReadings :
               /\ now' = t
               /\ nodes' = Append(nodes, SimpleNode(ToString(t), selectedTool, 0, 0, "undefined"))
         /\ UNCHANGED edges

HandleCanvasClick ==
    /\ SelectorClosed
    /\ selectedTool # "select"
    /\ AddNode
    /\ selectedNodes' = <<>>
    /\ selectedEdges' = <<>>
    /\ UNCHANGED <<selectedTool, diagramMode, autoDetectEdges, pendingEdge, selectedItems>>
    /\ UNCHANGED <<currentDiagram, file, fileOrigin, outcome, alertMessage, drawn, coords>>
    /\ UNCHANGED styleVars

\* The middle button, or the left button on the empty canvas with the select tool
HandleCanvasMouseDown(button) ==
    /\ SelectorClosed
    /\ button = 1 \/ (button = 0 /\ selectedTool = "select")
    /\ selectedNodes' = <<>>
    /\ selectedEdges' = <<>>
    /\ UNCHANGED <<selectedTool, diagramMode, autoDetectEdges, pendingEdge, selectedItems>>
    /\ UNCHANGED <<nodes, edges, now>>
    /\ UNCHANGED <<currentDiagram, file, fileOrigin, outcome, alertMessage, drawn, coords>>
    /\ UNCHANGED styleVars

\* The kind auto-detection gives an edge between two nodes
AutoDetectMUDEdgeType(sourceNode, targetNode) ==
    IF sourceNode.type = "practice" /\ targetNode.type = "vocabulary" THEN "PV"
    ELSE IF sourceNode.type = "vocabulary" /\ targetNode.type = "practice" THEN "VP"
    ELSE IF sourceNode.type = "practice" /\ targetNode.type = "practice" THEN "PP"
    ELSE "VV"

\* The second click with the edge tool, auto-detection on, in MUD mode
AutoDetectEdge(nodeId) ==
    /\ selectedTool = "edge"
    /\ Len(selectedNodes) = 1
    /\ selectedNodes[1] # nodeId
    /\ autoDetectEdges /\ diagramMode = "MUD"
    /\ Len(edges) < MaxAppEdges
    /\ \E t \in ClockReadings :
          /\ now' = t
          /\ edges' = Append(edges,
                 SimpleEdge(ToString(t), selectedNodes[1], nodeId,
                            <<AutoDetectMUDEdgeType(FindNode(selectedNodes[1]),
                                                    FindNode(nodeId))>>))
    /\ selectedNodes' = <<>>
    /\ UNCHANGED <<nodes, selectedTool, selectedEdges, diagramMode, autoDetectEdges,
                   pendingEdge>>

HandleNodeClick(nodeId) ==
    /\ SelectorClosed
    /\ nodeId \in NodeIds
    /\ \/ /\ selectedTool = "edge"
          /\ selectedNodes = <<>>
          /\ selectedNodes' = <<nodeId>>
          /\ UNCHANGED <<nodes, edges, now, selectedTool, selectedEdges, diagramMode,
                         autoDetectEdges, pendingEdge>>
       \/ AutoDetectEdge(nodeId)
       \/ /\ selectedTool = "edge"
          /\ Len(selectedNodes) = 1
          /\ selectedNodes[1] # nodeId
          /\ ~(autoDetectEdges /\ diagramMode = "MUD")
          /\ pendingEdge' = [source |-> selectedNodes[1], target |-> nodeId]
          /\ selectedNodes' = <<>>
          /\ UNCHANGED <<nodes, edges, now, selectedTool, selectedEdges, diagramMode,
                         autoDetectEdges>>
       \/ /\ selectedTool # "edge"
          /\ selectedNodes' = <<nodeId>>
          /\ UNCHANGED <<nodes, edges, now, selectedTool, selectedEdges, diagramMode,
                         autoDetectEdges, pendingEdge>>
    /\ UNCHANGED selectedItems
    /\ UNCHANGED <<currentDiagram, file, fileOrigin, outcome, alertMessage, drawn, coords>>
    /\ UNCHANGED styleVars

\* Two of the types the selector offers
OfferedEdgeTypes == {<<"VP", "-nec">>, <<"sequence">>}

CreateEdgeWithType(edgeType) ==
    /\ pendingEdge # NoPending
    /\ Len(edges) < MaxAppEdges
    /\ \E t \in ClockReadings :
          /\ now' = t
          /\ edges' = Append(edges,
                 SimpleEdge(ToString(t), pendingEdge.source, pendingEdge.target, edgeType))
    /\ pendingEdge' = NoPending
    /\ UNCHANGED <<nodes, selectedTool, selectedNodes, selectedEdges, diagramMode,
                   autoDetectEdges, selectedItems>>
    /\ UNCHANGED <<currentDiagram, file, fileOrigin, outcome, alertMessage, drawn, coords>>
    /\ UNCHANGED styleVars

CancelEdgeCreation ==
    /\ pendingEdge # NoPending
    /\ pendingEdge' = NoPending
    /\ UNCHANGED <<nodes, edges, now, selectedTool, selectedNodes, selectedEdges, diagramMode,
                   autoDetectEdges, selectedItems>>
    /\ UNCHANGED <<currentDiagram, file, fileOrigin, outcome, alertMessage, drawn, coords>>
    /\ UNCHANGED styleVars

HandleEdgeClick(edgeId) ==
    /\ SelectorClosed
    /\ edgeId \in AppEdgeIds
    /\ selectedTool = "select"
    /\ selectedEdges' = <<edgeId>>
    /\ selectedNodes' = <<>>
    /\ UNCHANGED <<selectedTool, diagramMode, autoDetectEdges, pendingEdge, selectedItems>>
    /\ UNCHANGED <<nodes, edges, now>>
    /\ UNCHANGED <<currentDiagram, file, fileOrigin, outcome, alertMessage, drawn, coords>>
    /\ UNCHANGED styleVars

\* deleteNode(nodeId) called with the nodes and edges of the last render:
\* what its setNodes and setEdges are given.
NodesWithout(nodeId) == Kept(nodes, {i \in 1..Len(nodes) : nodes[i].id # nodeId})
EdgesOffNode(nodeId) ==
    Kept(edges, {i \in 1..Len(edges) : edges[i].source # nodeId /\ edges[i].target # nodeId})
EdgesWithout(edgeId) == Kept(edges, {i \in 1..Len(edges) : edges[i].id # edgeId})

\* Delete or Backspace, no node being edited. Every setNodes and setEdges of
\* the handler is given a value computed from the nodes and edges of the last
\* render, and the last value given to a setter is the one that is kept.
HandleKeyDown ==
    /\ selectedNodes # <<>> \/ selectedEdges # <<>>
    /\ nodes' = IF selectedNodes # <<>>
                THEN NodesWithout(selectedNodes[Len(selectedNodes)]) ELSE nodes
    /\ edges' = IF selectedEdges # <<>> THEN EdgesWithout(selectedEdges[Len(selectedEdges)])
                ELSE EdgesOffNode(selectedNodes[Len(selectedNodes)])
    /\ selectedNodes' = <<>>
    /\ selectedEdges' = <<>>
    /\ UNCHANGED <<selectedTool, diagramMode, autoDetectEdges, pendingEdge, selectedItems>>
    /\ UNCHANGED now
    /\ UNCHANGED <<currentDiagram, file, fileOrigin, outcome, alertMessage, drawn, coords>>
    /\ UNCHANGED styleVars

\* clearDiagram, confirmed
ClearDiagram ==
    /\ SelectorClosed
    /\ nodes' = <<>>
    /\ edges' = <<>>
    /\ selectedNodes' = <<>>
    /\ UNCHANGED <<selectedTool, selectedEdges, diagramMode, autoDetectEdges, pendingEdge,
                   selectedItems>>
    /\ UNCHANGED now
    /\ UNCHANGED <<currentDiagram, file, fileOrigin, outcome, alertMessage, drawn, coords>>
    /\ UNCHANGED styleVars

InitApp ==
    /\ ImportIdle
    /\ GeomIdle
    /\ StyleIdle
    /\ UiIdle

NextApp ==
    \/ \E newMode \in DiagramModes : HandleModeChange(newMode)
    \/ \E tool \in Offered("HYBRID") : ToolbarClick(tool)
    \/ \E checked \in BOOLEAN : SetAutoDetectEdges(checked)
    \/ HandleCanvasClick
    \/ \E button \in {0, 1} : HandleCanvasMouseDown(button)
    \/ \E nodeId \in NodeIds : HandleNodeClick(nodeId)
    \/ \E edgeType \in OfferedEdgeTypes : CreateEdgeWithType(edgeType)
    \/ CancelEdgeCreation
    \/ \E edgeId \in AppEdgeIds : HandleEdgeClick(edgeId)
    \/ HandleKeyDown
    \/ ClearDiagram

SpecApp == InitApp /\ [][NextApp]_vars

-----------------------------------------------------------------------------
(* Properties of SimpleApp *)

Touches(edge, nodeId) == edge.source = nodeId \/ edge.target = nodeId

\* C26: when Delete or Backspace is handled with a node selected, no edge
\* that is left has that node as its source or its target, whatever else is
\* selected.
C26_DeleteTakesConnectedEdges ==
    [][(HandleKeyDown /\ selectedNodes # <<>>) =>
          \A i \in 1..Len(edges') : ~Touches(edges'[i], selectedNodes[Len(selectedNodes)])]_vars

\* The kind of relation between nodes of these two types, if there is one
KindMatches(kind, sourceType, targetType) ==
    \/ kind = <<"PV">> /\ sourceType = "practice" /\ targetType = "vocabulary"
    \/ kind = <<"VP">> /\ sourceType = "vocabulary" /\ targetType = "practice"
    \/ kind = <<"PP">> /\ sourceType = "practice" /\ targetType = "practice"
    \/ kind = <<"VV">> /\ sourceType = "vocabulary" /\ targetType = "vocabulary"

\* C27: an edge made by auto-detection has the kind that matches the types of
\* its two nodes: PV from a practice to a vocabulary, VP from a vocabulary to
\* a practice, PP between practices, VV between vocabularies.
C27_AutoDetectedKindMatches ==
    [][\A nodeId \in NodeIds :
          (SelectorClosed /\ AutoDetectEdge(nodeId)) =>
              KindMatches(edges'[Len(edges')].type,
                          FindNode(selectedNodes[1]).type, FindNode(nodeId).type)]_vars

\* C30: the selected tool is one of the tools of the current mode, and the
\* tools of HYBRID are those of MUD together with those of TOTE.
C30_ToolLegalForMode ==
    /\ selectedTool \in Offered(diagramMode)
    /\ Offered("HYBRID") = Offered("MUD") \cup Offered("TOTE")

\* A tool of MUD chosen after the mode was changed from one where a test node
\* was made.
C30_Witness ==
    /\ diagramMode = "MUD"
    /\ selectedTool = "practice"
    /\ \E i \in 1..Len(nodes) : nodes[i].type = "test"

-----------------------------------------------------------------------------
(* store/diagramSlice.ts: the reducers *)

\* The number of ids uuidv4 can give.
MaxUuids == 3

Uuid(k) == "u" \o ToString(k)

SliceNode(id, type, x, y, label) ==
    [id |-> id, type |-> type, position |-> [x |-> x, y |-> y], label |-> label]

SliceEdge(id, source, target, type) ==
    [id |-> id, source |-> source, target |-> target, type |-> type]

SliceDiagram(id, name, type, ns, es, created, modified) ==
    [t |-> "diagram", id |-> id, name |-> name, type |-> type, nodes |-> ns, edges |-> es,
     metadata |-> [created |-> created, modified |-> modified]]

HasDiagram == currentDiagram # NoDiagram

DiagramNodeIds ==
    IF HasDiagram THEN {currentDiagram.nodes[i].id : i \in 1..Len(currentDiagram.nodes)} ELSE {}
DiagramEdgeIds ==
    IF HasDiagram THEN {currentDiagram.edges[i].id : i \in 1..Len(currentDiagram.edges)} ELSE {}
DiagramItemIds == DiagramNodeIds \cup DiagramEdgeIds

\* Every id the state holds: uuidv4 gives none of them again.
IdsInState ==
    DiagramItemIds
        \cup {selectedItems[i] : i \in 1..Len(selectedItems)}
        \cup (IF HasDiagram
              THEN {currentDiagram.id}
                   \cup {currentDiagram.edges[i].source : i \in 1..Len(currentDiagram.edges)}
                   \cup {currentDiagram.edges[i].target : i \in 1..Len(currentDiagram.edges)}
              ELSE {})

\* The value uuidv4() returns: an id the state does not hold. Ids are only
\* compared for equality, so which of the unused ones it is makes no
\* difference, and the least is taken.
UnusedUuids == {k \in 1..MaxUuids : Uuid(k) \notin IdsInState}
Uuids ==
    IF UnusedUuids = {} THEN {}
    ELSE {Uuid(CHOOSE k \in UnusedUuids : \A other \in UnusedUuids : k <= other)}

\* state.currentDiagram.metadata.modified = new Date().toISOString()
Modified(diagram) ==
    [diagram EXCEPT !.metadata = [created |-> diagram.metadata.created,
                                  modified |-> IsoString(now)]]

SliceUnchanged ==
    /\ UNCHANGED <<file, fileOrigin, outcome, alertMessage, now>>
    /\ UNCHANGED geomVars
    /\ UNCHANGED styleVars
    /\ UNCHANGED appVars

CreateDiagram(name, type) ==
    /\ \E id \in Uuids :
          currentDiagram' = SliceDiagram(id, name, type, <<>>, <<>>,
                                         IsoString(now), IsoString(now))
    /\ selectedItems' = <<>>
    /\ SliceUnchanged

\* addNode: the payload with a new id
SliceAddNode(payload) ==
    /\ HasDiagram
    /\ \E id \in Uuids :
          currentDiagram' =
              Modified([currentDiagram EXCEPT
                  !.nodes = Append(@, SliceNode(id, payload.type, payload.position.x,
                                                payload.position.y, payload.label))])
    /\ UNCHANGED selectedItems
    /\ SliceUnchanged

AddEdge(payload) ==
    /\ HasDiagram
    /\ \E id \in Uuids :
          currentDiagram' =
              Modified([currentDiagram EXCEPT
                  !.edges = Append(@, SliceEdge(id, payload.source, payload.target,
                                                payload.type))])
    /\ UNCHANGED selectedItems
    /\ SliceUnchanged

\* nodes.findIndex(n => n.id === id), 0 for -1
NodeIndex(id) ==
    LET hits == {i \in 1..Len(currentDiagram.nodes) : currentDiagram.nodes[i].id = id}
    IN IF hits = {} THEN 0 ELSE CHOOSE i \in hits : \A k \in hits : i <= k

\* {...node, ...updates}
Spread(node, updates) ==
    [f \in DOMAIN node |-> IF f \in DOMAIN updates THEN updates[f] ELSE node[f]]

UpdateNode(id, updates) ==
    /\ HasDiagram
    /\ NodeIndex(id) # 0
    /\ currentDiagram' =
          Modified([currentDiagram EXCEPT !.nodes[NodeIndex(id)] = Spread(@, updates)])
    /\ UNCHANGED selectedItems
    /\ SliceUnchanged

UpdateNodePosition(id, position) ==
    /\ HasDiagram
    /\ NodeIndex(id) # 0
    /\ currentDiagram' =
          Modified([currentDiagram EXCEPT !.nodes[NodeIndex(id)].position = position])
    /\ UNCHANGED selectedItems
    /\ SliceUnchanged

\* list.filter(item => item !== id)
Without(list, id) == FilterFrom(list, {i \in 1..Len(list) : list[i] # id}, 1)

DeleteNode(nodeId) ==
    /\ HasDiagram
    /\ currentDiagram' =
          Modified([currentDiagram EXCEPT
              !.nodes = FilterFrom(@, {i \in 1..Len(@) : @[i].id # nodeId}, 1),
              !.edges = FilterFrom(@, {i \in 1..Len(@) :
                                          @[i].source # nodeId /\ @[i].target # nodeId}, 1)])
    /\ selectedItems' = Without(selectedItems, nodeId)
    /\ SliceUnchanged

DeleteEdge(edgeId) ==
    /\ HasDiagram
    /\ currentDiagram' =
          Modified([currentDiagram EXCEPT
              !.edges = FilterFrom(@, {i \in 1..Len(@) : @[i].id # edgeId}, 1)])
    /\ selectedItems' = Without(selectedItems, edgeId)
    /\ SliceUnchanged

SelectItems(ids) ==
    /\ selectedItems' = ids
    /\ UNCHANGED currentDiagram
    /\ SliceUnchanged

SelectItem(id) ==
    /\ selectedItems' = <<id>>
    /\ UNCHANGED currentDiagram
    /\ SliceUnchanged

AddToSelection(id) ==
    /\ selectedItems' = IF \E i \in 1..Len(selectedItems) : selectedItems[i] = id
                        THEN selectedItems ELSE Append(selectedItems, id)
    /\ UNCHANGED currentDiagram
    /\ SliceUnchanged

ClearSelection ==
    /\ selectedItems' = <<>>
    /\ UNCHANGED currentDiagram
    /\ SliceUnchanged

LoadDiagram(diagram) ==
    /\ currentDiagram' = diagram
    /\ selectedItems' = <<>>
    /\ SliceUnchanged

\* The payloads the reducers are given
NodePayloads ==
    {[type |-> type, position |-> [x |-> 0, y |-> 0], label |-> "n"] :
        type \in {"vocabulary"}}

EdgePayloads ==
    {[source |-> source, target |-> target, type |-> "PV"] :
        source \in DiagramNodeIds, target \in DiagramNodeIds}

\* Partial<Node>: any of the fields of a node
NodeUpdates ==
    {[label |-> "m"], [type |-> "practice"]}
        \cup {[id |-> id] : id \in Uuids}

Positions == {[x |-> 10, y |-> 10]}

\* The selections a caller asks for: ids of nodes or edges of the diagram
SelectionPayloads ==
    {<<>>} \cup {<<id>> : id \in DiagramItemIds}
           \cup {pair \in DiagramItemIds \X DiagramItemIds : pair[1] # pair[2]}

LoadedDiagrams ==
    {SliceDiagram("loaded", "d", "MUD", <<>>, <<>>, IsoString(0), IsoString(0))}

InitSlice ==
    /\ ImportIdle
    /\ GeomIdle
    /\ StyleIdle
    /\ UiIdle

NextSlice ==
    \/ \E type \in {"MUD"} : CreateDiagram("Untitled Diagram", type)
    \/ \E payload \in NodePayloads : SliceAddNode(payload)
    \/ \E payload \in EdgePayloads : AddEdge(payload)
    \/ \E id \in DiagramNodeIds : \E updates \in NodeUpdates : UpdateNode(id, updates)
    \/ \E id \in DiagramNodeIds : \E position \in Positions : UpdateNodePosition(id, position)
    \/ \E id \in DiagramNodeIds : DeleteNode(id)
    \/ \E id \in DiagramEdgeIds : DeleteEdge(id)
    \/ \E ids \in SelectionPayloads : SelectItems(ids)
    \/ \E id \in DiagramItemIds : SelectItem(id)
    \/ \E id \in DiagramItemIds : AddToSelection(id)
    \/ ClearSelection
    \/ \E diagram \in LoadedDiagrams : LoadDiagram(diagram)

SpecSlice == InitSlice /\ [][NextSlice]_vars

-----------------------------------------------------------------------------
(* Properties of the reducers *)

SliceNodes(diagram) == IF diagram = NoDiagram THEN <<>> ELSE diagram.nodes

\* C25: through every reducer, each node of the diagram keeps the id and the
\* type it had; the only new node is the one addNode appends.
C25_NodeKeepsIdAndType ==
    [][(HasDiagram /\ currentDiagram' # NoDiagram /\ currentDiagram'.id = currentDiagram.id) =>
          \A i \in 1..Len(currentDiagram'.nodes) :
              \/ \E j \in 1..Len(currentDiagram.nodes) :
                    /\ currentDiagram.nodes[j].id = currentDiagram'.nodes[i].id
                    /\ currentDiagram.nodes[j].type = currentDiagram'.nodes[i].type
              \/ /\ i = Len(currentDiagram'.nodes)
                 /\ Len(currentDiagram'.nodes) = Len(currentDiagram.nodes) + 1]_vars

SelectionIsPresent ==
    \A i \in 1..Len(selectedItems) : selectedItems[i] \in DiagramItemIds

\* C29: selectedItems holds only ids of nodes and edges that are in the
\* diagram: when it does and deleteNode(n) is dispatched, it still does
\* afterwards, holding neither n nor an edge that was removed with n.
C29_SelectionStaysPresent ==
    [][\A nodeId \in DiagramNodeIds :
          (SelectionIsPresent /\ DeleteNode(nodeId)) => SelectionIsPresent']_vars

=============================================================================
